---- MODULE Spec2Model ----
(***************************************************************************)
(* The constraint-emitting scalar layer of Zinc:                           *)
(* zinc/src/primitive/constrained/mod.rs (FrPrimitive and                  *)
(* ConstrainingFrOperations).  Every operation computes a witness value    *)
(* and appends variables and R1CS constraints a*b = c to the constraint    *)
(* system.  The prime field E::Fr is scaled down to a small prime so that  *)
(* TLC can enumerate it; all arithmetic is done modulo that prime.         *)
(***************************************************************************)
EXTENDS Integers, Sequences, FiniteSets, TLC

VARIABLES
    ops,      \* the ConstrainingFrOperations instance: cs, counter
    regs,     \* the scalars the caller holds, each with the type it was declared with
    res,      \* the last operation: its name, operands and what it returned
    array,    \* the array operand of array_get / array_set
    conds,    \* the condition stack of the branching machine
    loc,      \* the memory location written inside the branches
    pc,       \* the position of the caller in a conditional or an array access
    steps,    \* the number of operations carried out so far
    twin      \* an earlier run of the process: its instance and the calls it made

vars == <<ops, regs, res, array, conds, loc, pc, steps, twin>>

(***************************************************************************)
(* The field.                                                              *)
(***************************************************************************)

\* The modulus of E::Fr (scaled down; BN256's has 254 bits).
P == 31

Fp == 0 .. (P - 1)

RECURSIVE BitLen(_)
BitLen(n) == IF n = 0 THEN 0 ELSE 1 + BitLen(n \div 2)

\* E::Fr::NUM_BITS and E::Fr::CAPACITY.
NUM_BITS == BitLen(P)
CAPACITY == NUM_BITS - 1

Mod(x) == x % P

\* fr.inverse(): <<>> for zero.
Inverses(x) == {y \in Fp : Mod(x * y) = 1}
inverse(x) == IF Inverses(x) = {} THEN <<>> ELSE <<CHOOSE y \in Inverses(x) : TRUE>>

\* Option<T>: None is <<>>, Some(v) is <<v>>.
NoneV == <<>>
Some(v) == <<v>>
IsSome(o) == o # <<>>
Unwrap(o) == o[1]

\* utils::fr_to_bigint: the representative of least absolute value.
fr_to_bigint(fr) == IF 2 * fr < P THEN fr ELSE fr - P

\* utils::bigint_to_fr: None when the integer does not fit the field.
bigint_to_fr(v) ==
    IF v >= P \/ v <= -P THEN NoneV
    ELSE IF v >= 0 THEN Some(v) ELSE Some(P + v)

Abs(v) == IF v < 0 THEN -v ELSE v

\* utils::euclidean_div_rem: (q, r) with n = q*d + r and 0 <= r < |d|; d # 0.
euclidean_div_rem(n, d) ==
    LET r == n % Abs(d)
        q == IF d > 0 THEN (n - r) \div d ELSE -((n - r) \div (-d))
    IN  <<q, r>>

\* A height that is the floor of the logarithm.
tree_height_floor(n) == IF n <= 1 THEN 0 ELSE BitLen(n) - 1

\* utils::tree_height: the number of index bits of an array, ceil(log2(n)).
tree_height(n) == IF n <= 1 THEN 0 ELSE BitLen(n - 1)

Pow2(n) == 2 ^ n

Bit(v, i) == (v \div Pow2(i)) % 2

(***************************************************************************)
(* The constraint system: named variables with their assignment, and       *)
(* named constraints a * b = c over linear combinations (sequences of      *)
(* <<coefficient, variable>>).  Variable 0 is CS::one(); the variables     *)
(* allocated are numbered from 1 in the order of allocation.               *)
(***************************************************************************)

\* FrPrimitive::new: the scalar carries no data type.
new(value, variable) ==
    [value |-> value, variable |-> variable, data_type |-> NoneV]

\* ConstrainingFrOperations::new
NewOps == [counter |-> 0, spaces |-> <<>>, vars |-> <<>>, cons |-> <<>>, err |-> "none"]

Failed(ctx) == ctx.err # "none"

Fail(ctx, e) == IF Failed(ctx) THEN ctx ELSE [ctx EXCEPT !.err = e]

\* No earlier run.
NoTwin == [log |-> <<>>]

\* A name taken from a counter of the process, which a later instance goes on from.
ns_name_of_process(ctx) ==
    ToString(ctx.counter + (IF twin = NoTwin THEN 0 ELSE twin.ops.counter))

\* cs_namespace: the namespace is named after the counter ...
ns_name(ctx) == ToString(ctx.counter)

\* A cs_namespace that leaves the counter where it is.
cs_namespace_same(ctx) ==
    IF Failed(ctx) THEN ctx ELSE [ctx EXCEPT !.spaces = Append(@, ns_name(ctx))]

\* ... and the counter is advanced; the namespace is opened in cs.
cs_namespace(ctx) ==
    IF Failed(ctx) THEN ctx
    ELSE [ctx EXCEPT !.counter = @ + 1, !.spaces = Append(@, ns_name(ctx))]

\* cs.namespace(|| name)
namespace(ns, name) == ns \o "/" \o name

\* The variable the next allocation returns.
NextVar(ctx) == Len(ctx.vars) + 1

\* cs.alloc / cs.alloc_input, as a step of an operation.
Alloc(ns, name, value, kind) ==
    [t |-> "alloc", name |-> namespace(ns, name), value |-> value, kind |-> kind]

\* cs.enforce(|| name, a, b, c), as a step of an operation.
Enforce(ns, name, a, b, c) ==
    [t |-> "enforce", name |-> namespace(ns, name), kind |-> "r1cs",
     a |-> a, b |-> b, c |-> c]

\* A requirement a gadget of the circuit library enforces with constraints of
\* its own that are not spelled out: the bits are those of a number of the field.
EnforceInField(ns, name, bitvars) ==
    [t |-> "enforce", name |-> namespace(ns, name), kind |-> "in_field",
     a |-> bitvars, b |-> <<>>, c |-> <<>>]

IsAlloc(item) == item.t = "alloc"
IsEnforce(item) == item.t = "enforce"

MinOf(S) == CHOOSE i \in S : \A j \in S : i <= j

\* The steps of an operation carried out in order: an allocation whose value
\* is missing ends the operation with SynthesisError::AssignmentMissing.
emit(ctx, items) ==
    IF Failed(ctx) THEN ctx
    ELSE LET bad  == {i \in 1 .. Len(items) : IsAlloc(items[i]) /\ ~IsSome(items[i].value)}
             stop == IF bad = {} THEN Len(items) + 1 ELSE MinOf(bad)
             done == SubSeq(items, 1, stop - 1)
             allocs   == SelectSeq(done, IsAlloc)
             enforces == SelectSeq(done, IsEnforce)
         IN  [ctx EXCEPT
                !.vars = @ \o [i \in 1 .. Len(allocs) |->
                                [name |-> allocs[i].name, val |-> Unwrap(allocs[i].value),
                                 kind |-> allocs[i].kind]],
                !.cons = @ \o [i \in 1 .. Len(enforces) |->
                                [name |-> enforces[i].name, kind |-> enforces[i].kind,
                                 a |-> enforces[i].a, b |-> enforces[i].b,
                                 c |-> enforces[i].c]],
                !.err = IF bad = {} THEN "none" ELSE "AssignmentMissing"]

ValOf(ctx, v) == IF v = 0 THEN 1 ELSE ctx.vars[v].val

RECURSIVE EvalLC(_, _)
EvalLC(ctx, lc) ==
    IF lc = <<>> THEN 0
    ELSE Mod(lc[1][1] * ValOf(ctx, lc[1][2]) + EvalLC(ctx, Tail(lc)))

RECURSIVE BitsValue(_, _)
BitsValue(ctx, bitvars) ==
    IF bitvars = <<>> THEN 0
    ELSE ValOf(ctx, bitvars[1]) + 2 * BitsValue(ctx, Tail(bitvars))

Holds(ctx, con) ==
    IF con.kind = "r1cs"
    THEN Mod(EvalLC(ctx, con.a) * EvalLC(ctx, con.b)) = EvalLC(ctx, con.c)
    ELSE BitsValue(ctx, con.a) < P

\* cs.is_satisfied(): the assignment satisfies every constraint.
Satisfied(ctx) == \A i \in 1 .. Len(ctx.cons) : Holds(ctx, ctx.cons[i])

(***************************************************************************)
(* The gadgets of the circuit library the operations call, as the steps    *)
(* they carry out; v is the variable their first allocation returns.       *)
(***************************************************************************)

LcOne == << <<1, 0>> >>
LcVar(v) == << <<1, v>> >>

\* AllocatedNum::alloc
AllocatedNum_alloc(ns, value) == <<Alloc(ns, "num", value, "aux")>>

\* AllocatedBit::alloc: a variable constrained to 0 or 1.
AllocatedBit_alloc(ns, value, v) ==
    <<Alloc(ns, "boolean", value, "aux"),
      Enforce(ns, "boolean constraint", << <<1, 0>>, <<-1, v>> >>, LcVar(v), <<>>)>>

BitValue(value, i) == IF IsSome(value) THEN Some(Bit(Unwrap(value), i)) ELSE NoneV

\* field_into_allocated_bits_le_fixed: the low bit_length bits of the value.
AllocBits(ns, value, bit_length, v) ==
    [k \in 1 .. 2 * bit_length |->
        LET i == (k - 1) \div 2
        IN  AllocatedBit_alloc(namespace(ns, "bit " \o ToString(i)),
                               BitValue(value, i), v + i)[2 - (k % 2)]]

\* The bits AllocBits allocates, as Booleans.
BitsOf(value, bit_length, v) ==
    [i \in 1 .. bit_length |-> [value |-> BitValue(value, i - 1), variable |-> v + i - 1]]

PackedLC(bits) == [i \in 1 .. Len(bits) |-> <<Mod(Pow2(i - 1)), bits[i].variable>>]

\* AllocatedNum::into_bits_le_fixed: bit_length bits that repack to the number.
into_bits_le_fixed(ns, num, bit_length, v) ==
    AllocBits(ns, num.value, bit_length, v)
    \o <<Enforce(ns, "unpacking constraint",
                 PackedLC(BitsOf(num.value, bit_length, v)), LcOne, LcVar(num.variable))>>

\* AllocatedNum::into_bits_le: NUM_BITS bits that are the number, strictly in the field.
into_bits_le(ns, num, v) ==
    AllocBits(ns, num.value, NUM_BITS, v)
    \o <<EnforceInField(ns, "in field", [i \in 1 .. NUM_BITS |-> v + i - 1]),
         Enforce(ns, "unpacking constraint",
                 PackedLC(BitsOf(num.value, NUM_BITS, v)), LcOne, LcVar(num.variable))>>

RECURSIVE PackedValue(_)
PackedValue(bits) ==
    IF bits = <<>> THEN Some(0)
    ELSE LET rest == PackedValue(Tail(bits))
         IN  IF IsSome(bits[1].value) /\ IsSome(rest)
             THEN Some(Mod(Unwrap(bits[1].value) + 2 * Unwrap(rest)))
             ELSE NoneV

\* AllocatedNum::pack_bits_to_element
pack_bits_to_element(ns, bits, v) ==
    <<Alloc(ns, "variable", PackedValue(bits), "aux"),
      Enforce(ns, "packing constraint", PackedLC(bits), LcOne, LcVar(v))>>

\* The value of the bit AllocatedNum::equals returns.
equals_value(a, b) ==
    IF IsSome(a.value) /\ IsSome(b.value)
    THEN Some(IF Unwrap(a.value) = Unwrap(b.value) THEN 1 ELSE 0)
    ELSE NoneV

\* AllocatedNum::equals: a bit r with r = 1 iff a = b, by a witnessed inverse of a - b.
AllocatedNum_equals(ns, a, b, v) ==
    LET known == IsSome(a.value) /\ IsSome(b.value)
        delta == IF known THEN Mod(Unwrap(a.value) - Unwrap(b.value)) ELSE 0
        dinv  == IF known
                 THEN (IF delta = 0 THEN Some(1) ELSE inverse(delta))
                 ELSE NoneV
        tv    == IF known THEN Some(Mod(delta * Unwrap(dinv))) ELSE NoneV
        r  == v
        di == v + 1
        t  == v + 2
        d  == << <<1, a.variable>>, <<-1, b.variable>> >>
    IN  AllocatedBit_alloc(namespace(ns, "r"), equals_value(a, b), r)
        \o AllocatedNum_alloc(namespace(ns, "delta_inv"), dinv)
        \o AllocatedNum_alloc(namespace(ns, "t"), tv)
        \o <<Enforce(ns, "t = (a - b) * delta_inv", d, LcVar(di), LcVar(t)),
             Enforce(ns, "(a - b) * (t - 1) == 0", d, << <<1, t>>, <<-1, 0>> >>, <<>>),
             Enforce(ns, "(a - b) * r == 0", d, LcVar(r), <<>>),
             Enforce(ns, "(t - 1) * (r - 1) == 0",
                     << <<1, t>>, <<-1, 0>> >>, << <<1, r>>, <<-1, 0>> >>, <<>>)>>

\* FrPrimitive::as_allocated_num
as_allocated_num(ns, self, v) ==
    AllocatedNum_alloc(namespace(ns, "allucated num"), self.value)
    \o <<Enforce(ns, "allocated num", LcVar(self.variable), LcOne, LcVar(v))>>

(***************************************************************************)
(* ConstrainingFrOperations: the private helpers and PrimitiveOperations.  *)
(* Each operator takes the instance and returns it with the result.  An    *)
(* operation whose witness value the prover supplies takes that value as   *)
(* a parameter (the _w form); the operation proper passes the value the    *)
(* code computes.  The result of a call is bound as the one element of a   *)
(* set, Only({ ... : r \in {call} }), so that it is computed once.         *)
(***************************************************************************)

Only(S) == CHOOSE x \in S : TRUE

zero(ctx) ==
    LET ns == ns_name(ctx)
        v  == NextVar(ctx)
    IN  [ctx |-> emit(cs_namespace(ctx),
                      <<Alloc(ns, "zero_var", Some(0), "aux"),
                        Enforce(ns, "zero constraint", LcVar(v), LcOne, <<>>)>>),
         out |-> new(Some(0), v)]

one == new(Some(1), 0)

variable_none(ctx) ==
    [ctx |-> emit(cs_namespace(ctx),
                  <<Alloc(ns_name(ctx), "variable value", NoneV, "aux")>>),
     out |-> new(NoneV, NextVar(ctx))]

variable_bigint(ctx, bigint) ==
    LET value == bigint_to_fr(bigint)
    IN  IF ~IsSome(value) THEN [ctx |-> Fail(ctx, "InternalError"), out |-> new(NoneV, 0)]
        ELSE [ctx |-> emit(cs_namespace(ctx),
                           <<Alloc(ns_name(ctx), "variable value", value, "aux")>>),
              out |-> new(value, NextVar(ctx))]

constant_bigint(ctx, bigint) ==
    LET value == bigint_to_fr(bigint)
        ns == ns_name(ctx)
        v  == NextVar(ctx)
    IN  IF ~IsSome(value) THEN [ctx |-> Fail(ctx, "InternalError"), out |-> new(NoneV, 0)]
        ELSE [ctx |-> emit(cs_namespace(ctx),
                           <<Alloc(ns, "constant value", value, "aux"),
                             Enforce(ns, "constant equation",
                                     LcOne, << <<Unwrap(value), 0>> >>, LcVar(v))>>),
              out |-> new(value, v)]

output(ctx, element) ==
    LET ns == ns_name(ctx)
        v  == NextVar(ctx)
    IN  [ctx |-> emit(cs_namespace(ctx),
                      <<Alloc(ns, "output value", element.value, "input"),
                        Enforce(ns, "enforce output equality",
                                LcVar(v), LcOne, LcVar(element.variable))>>),
         out |-> new(element.value, v)]

Both(l, r) == IsSome(l.value) /\ IsSome(r.value)

add(ctx, left, right) ==
    LET sum == IF Both(left, right)
               THEN Some(Mod(Unwrap(left.value) + Unwrap(right.value))) ELSE NoneV
        ns == ns_name(ctx)
        v  == NextVar(ctx)
    IN  [ctx |-> emit(cs_namespace(ctx),
                      <<Alloc(ns, "sum variable", sum, "aux"),
                        Enforce(ns, "sum constraint",
                                << <<1, left.variable>>, <<1, right.variable>> >>,
                                LcOne, LcVar(v))>>),
         out |-> new(sum, v)]

sub(ctx, left, right) ==
    LET diff == IF Both(left, right)
                THEN Some(Mod(Unwrap(left.value) - Unwrap(right.value))) ELSE NoneV
        ns == ns_name(ctx)
        v  == NextVar(ctx)
    IN  [ctx |-> emit(cs_namespace(ctx),
                      <<Alloc(ns, "diff variable", diff, "aux"),
                        Enforce(ns, "diff constraint",
                                << <<1, left.variable>>, <<-1, right.variable>> >>,
                                LcOne, LcVar(v))>>),
         out |-> new(diff, v)]

mul(ctx, left, right) ==
    LET prod == IF Both(left, right)
                THEN Some(Mod(Unwrap(left.value) * Unwrap(right.value))) ELSE NoneV
        ns == ns_name(ctx)
        v  == NextVar(ctx)
    IN  [ctx |-> emit(cs_namespace(ctx),
                      <<Alloc(ns, "prod variable", prod, "aux"),
                        Enforce(ns, "prod constraint",
                                LcVar(left.variable), LcVar(right.variable), LcVar(v))>>),
         out |-> new(prod, v)]

neg(ctx, element) ==
    LET neg_value == IF IsSome(element.value)
                     THEN Some(Mod(0 - Unwrap(element.value))) ELSE NoneV
        ns == ns_name(ctx)
        v  == NextVar(ctx)
    IN  [ctx |-> emit(cs_namespace(ctx),
                      <<Alloc(ns, "neg variable", neg_value, "aux"),
                        Enforce(ns, "neg constraint",
                                LcVar(element.variable), LcOne, << <<-1, v>> >>)>>),
         out |-> new(neg_value, v)]

not(ctx, element) == sub(ctx, one, element)

and(ctx, left, right) ==
    LET value == IF Both(left, right)
                 THEN Some(Mod(Unwrap(left.value) * Unwrap(right.value))) ELSE NoneV
        ns == ns_name(ctx)
        v  == NextVar(ctx)
    IN  [ctx |-> emit(cs_namespace(ctx),
                      <<Alloc(ns, "and", value, "aux"),
                        Enforce(ns, "equality",
                                LcVar(left.variable), LcVar(right.variable), LcVar(v))>>),
         out |-> new(value, v)]

or(ctx, left, right) ==
    LET value == IF Both(left, right)
                 THEN (IF Unwrap(left.value) = 0 /\ Unwrap(right.value) = 0
                       THEN Some(0) ELSE Some(1))
                 ELSE NoneV
        ns == ns_name(ctx)
        v  == NextVar(ctx)
    IN  [ctx |-> emit(cs_namespace(ctx),
                      <<Alloc(ns, "or", value, "aux"),
                        Enforce(ns, "equality",
                                << <<1, 0>>, <<-1, left.variable>> >>,
                                << <<1, 0>>, <<-1, right.variable>> >>,
                                << <<1, 0>>, <<-1, v>> >>)>>),
         out |-> new(value, v)]

\* A xor that computes and enforces the disjunction.
xor_as_or(ctx, left, right) == or(ctx, left, right)

xor(ctx, left, right) ==
    LET value == IF Both(left, right)
                 THEN (IF (Unwrap(left.value) = 0) = (Unwrap(right.value) = 0)
                       THEN Some(0) ELSE Some(1))
                 ELSE NoneV
        ns == ns_name(ctx)
        v  == NextVar(ctx)
    IN  [ctx |-> emit(cs_namespace(ctx),
                      <<Alloc(ns, "conjunction", value, "aux"),
                        Enforce(ns, "equality",
                                << <<1, left.variable>>, <<1, left.variable>> >>,
                                LcVar(right.variable),
                                << <<1, left.variable>>, <<1, right.variable>>,
                                   <<-1, v>> >>)>>),
         out |-> new(value, v)]

\* le after the subtraction: diff is right - left.
le_diff(diff) ==
    LET ns   == ns_name(diff.ctx)
        v    == NextVar(diff.ctx)
        diff_num == [value |-> diff.out.value, variable |-> v]
        low  == SubSeq(BitsOf(diff_num.value, NUM_BITS, v + 1), 1, CAPACITY - 1)
        diff_num_repacked == [value |-> PackedValue(low), variable |-> v + 1 + NUM_BITS]
        lt_var == v + 2 + NUM_BITS
    IN  [ctx |-> emit(cs_namespace(diff.ctx),
                      AllocatedNum_alloc(namespace(ns, "diff_num variable"), diff_num.value)
                      \o <<Enforce(ns, "allocated_num equality",
                                   LcVar(diff.out.variable), LcOne, LcVar(v))>>
                      \o into_bits_le(namespace(ns, "diff_num bits"), diff_num, v + 1)
                      \o pack_bits_to_element(namespace(ns, "diff_num_repacked"), low,
                                              diff_num_repacked.variable)
                      \o AllocatedNum_equals(namespace(ns, "equals"), diff_num,
                                             diff_num_repacked, lt_var)),
         out |-> new(equals_value(diff_num, diff_num_repacked), lt_var)]

\* A le that subtracts the operands the other way round.
le_swapped(ctx, left, right) == Only({le_diff(diff) : diff \in {sub(ctx, left, right)}})

le(ctx, left, right) == Only({le_diff(diff) : diff \in {sub(ctx, right, left)}})

\* A lt that leaves out the decrement of the right operand.
lt_no_decrement(ctx, left, right) == le(ctx, left, right)

lt(ctx, left, right) ==
    Only({le(right_minus_one.ctx, left, right_minus_one.out) :
            right_minus_one \in {sub(ctx, right, one)}})

eq(ctx, left, right) ==
    LET ns == ns_name(ctx)
        v  == NextVar(ctx)
        l_num == [value |-> left.value, variable |-> v]
        r_num == [value |-> right.value, variable |-> v + 1]
    IN  [ctx |-> emit(cs_namespace(ctx),
                      AllocatedNum_alloc(namespace(ns, "l_num"), left.value)
                      \o AllocatedNum_alloc(namespace(ns, "r_num"), right.value)
                      \o AllocatedNum_equals(ns, l_num, r_num, v + 2)),
         out |-> new(equals_value(l_num, r_num), v + 2)]

ne(ctx, left, right) ==
    Only({not(e.ctx, e.out) : e \in {eq(ctx, left, right)}})

ge(ctx, left, right) ==
    Only({not(not_ge.ctx, not_ge.out) : not_ge \in {lt(ctx, left, right)}})

gt(ctx, left, right) ==
    Only({not(not_gt.ctx, not_gt.out) : not_gt \in {le(ctx, left, right)}})

\* The value conditional_select computes for its result.
\* A selection that ignores the condition.
select_if_true(condition, if_true, if_false) == if_true.value

conditional_select_value(condition, if_true, if_false) ==
    IF IsSome(condition.value)
    THEN (IF Unwrap(condition.value) # 0 THEN if_true.value ELSE if_false.value)
    ELSE NoneV

\* conditional_select from the allocation of the result on.
conditional_select_w(ctx, condition, if_true, if_false, value) ==
    LET ns == ns_name(ctx)
        v  == NextVar(ctx)
    IN  [ctx |-> emit(cs_namespace(ctx),
                      <<Alloc(ns, "variable", value, "aux"),
                        Enforce(ns, "constraint",
                                << <<1, if_true.variable>>, <<-1, if_false.variable>> >>,
                                LcVar(condition.variable),
                                << <<1, v>>, <<-1, if_false.variable>> >>)>>),
         out |-> new(value, v)]

conditional_select(ctx, condition, if_true, if_false) ==
    conditional_select_w(ctx, condition, if_true, if_false,
                         conditional_select_value(condition, if_true, if_false))

\* The value assert computes for the inverse: zero when there is none.
assert_value(element) ==
    IF IsSome(element.value)
    THEN (IF IsSome(inverse(Unwrap(element.value)))
          THEN inverse(Unwrap(element.value)) ELSE Some(0))
    ELSE NoneV

\* An assert that allocates the inverse and enforces nothing.
assert_unconstrained(ctx, element, inverse_value) ==
    emit(cs_namespace(ctx), <<Alloc(ns_name(ctx), "inverse", inverse_value, "aux")>>)

\* assert from the allocation of the inverse on.
assert_w(ctx, element, inverse_value) ==
    emit(cs_namespace(ctx),
         <<Alloc(ns_name(ctx), "inverse", inverse_value, "aux"),
           Enforce(ns_name(ctx), "assertion",
                   LcVar(element.variable), LcVar(NextVar(ctx)), LcOne)>>)

assert(ctx, element) == assert_w(ctx, element, assert_value(element))

abs(ctx, value) ==
    Only({Only({Only({conditional_select(lt0.ctx, lt0.out, ng.out, value) :
                        lt0 \in {lt(ng.ctx, value, z.out)}}) :
                  ng \in {neg(z.ctx, value)}}) :
            z \in {zero(ctx)}})

\* div_rem from the allocation of the quotient and the remainder on.
div_rem_w(ctx, nominator, denominator, quotient_value, remainder_value) ==
    LET ns == ns_name(ctx)
        qutioent_var  == NextVar(ctx)
        remainder_var == NextVar(ctx) + 1
        equality == emit(cs_namespace(ctx),
                         <<Alloc(ns, "qutioent", quotient_value, "aux"),
                           Alloc(ns, "remainder", remainder_value, "aux"),
                           Enforce(ns, "equality",
                                   LcVar(qutioent_var), LcVar(denominator.variable),
                                   << <<1, nominator.variable>>, <<-1, remainder_var>> >>)>>)
        quotient  == new(quotient_value, qutioent_var)
        remainder == new(remainder_value, remainder_var)
        bound(lt_r, ge_r) ==
            emit(cs_namespace(ge_r.ctx),
                 <<Enforce(ns_name(ge_r.ctx), "0 <= rem < |denominator|",
                           << <<1, 0>>, <<-1, lt_r.out.variable>> >>,
                           << <<1, 0>>, <<-1, ge_r.out.variable>> >>, <<>>)>>)
    IN  Only({Only({Only({Only({Only({
            [ctx |-> bound(lt_r, ge_r), quotient |-> quotient, remainder |-> remainder] :
                ge_r \in {ge(z.ctx, remainder, z.out)}}) :
                z \in {zero(lt_r.ctx)}}) :
                lt_r \in {lt(abs_denominator.ctx, remainder, abs_denominator.out)}}) :
                abs_denominator \in {abs(c, denominator)}}) :
                c \in {equality}})

\* A division that truncates toward zero, the remainder taking the sign of
\* the dividend.
div_rem_values_truncated(left, right) ==
    IF ~Both(left, right) THEN [panic |-> FALSE, q |-> NoneV, r |-> NoneV]
    ELSE LET nom_bi   == fr_to_bigint(Unwrap(left.value))
             denom_bi == fr_to_bigint(Unwrap(right.value))
             magnitude == Abs(nom_bi) \div Abs(denom_bi)
             q == IF (nom_bi < 0) = (denom_bi < 0) THEN magnitude ELSE -magnitude
         IN  IF denom_bi = 0 THEN [panic |-> TRUE, q |-> NoneV, r |-> NoneV]
             ELSE [panic |-> FALSE, q |-> bigint_to_fr(q),
                   r |-> bigint_to_fr(nom_bi - q * denom_bi)]

\* The quotient and remainder values div_rem computes: none when an operand has
\* no value; the big-integer division panics on a zero divisor.
div_rem_values(left, right) ==
    IF ~Both(left, right) THEN [panic |-> FALSE, q |-> NoneV, r |-> NoneV]
    ELSE LET nom_bi   == fr_to_bigint(Unwrap(left.value))
             denom_bi == fr_to_bigint(Unwrap(right.value))
         IN  IF denom_bi = 0 THEN [panic |-> TRUE, q |-> NoneV, r |-> NoneV]
             ELSE LET qr == euclidean_div_rem(nom_bi, denom_bi)
                  IN  [panic |-> FALSE, q |-> bigint_to_fr(qr[1]), r |-> bigint_to_fr(qr[2])]

div_rem(ctx, left, right) ==
    LET values == div_rem_values(left, right)
    IN  IF values.panic
        THEN [ctx |-> Fail(ctx, "panic"), quotient |-> new(NoneV, 0),
              remainder |-> new(NoneV, 0)]
        ELSE div_rem_w(ctx, left, right, values.q, values.r)

\* type_check: a scalar without a data type passes without a constraint.
type_check(ctx, value) ==
    IF ~IsSome(value.data_type) THEN ctx
    ELSE LET data_type == Unwrap(value.data_type)
             range_check(adjusted_value) ==
                LET ns == ns_name(adjusted_value.ctx)
                    v  == NextVar(adjusted_value.ctx)
                    num == [value |-> adjusted_value.out.value, variable |-> v]
                IN  emit(cs_namespace(adjusted_value.ctx),
                         as_allocated_num(namespace(ns, "as_allocated_num"),
                                          adjusted_value.out, v)
                         \o into_bits_le_fixed(namespace(ns, "into_bits_le_fixed"), num,
                                               data_type.length, v + 1))
         IN  IF data_type.signed
             THEN Only({Only({range_check(adjusted_value) :
                                adjusted_value \in {add(offset.ctx, value, offset.out)}}) :
                          offset \in {constant_bigint(ctx, Pow2(data_type.length - 1))}})
             ELSE range_check([ctx |-> ctx, out |-> value])

\* bits: the index is asserted to be below the length, then split into
\* tree_height(array_length) bits.
bits(ctx, index, array_length) ==
    LET bit_length == tree_height(array_length)
        split(a) ==
            LET ns  == ns_name(a)
                v   == NextVar(a)
                num == [value |-> index.value, variable |-> v]
            IN  [ctx |-> emit(cs_namespace(a),
                              as_allocated_num(namespace(ns, "into_allocated_num"), index, v)
                              \o into_bits_le_fixed(namespace(ns, "bits_le_fixed"), num,
                                                    bit_length, v + 1)),
                 out |-> [i \in 1 .. bit_length |->
                             new(BitValue(index.value, i - 1), v + i)]]
    IN  Only({Only({Only({split(a) :
                a \in {assert(index_lt_length.ctx, index_lt_length.out)}}) :
                index_lt_length \in {lt(length.ctx, index, length.out)}}) :
                length \in {constant_bigint(ctx, array_length)}})

\* A level that takes the first of a pair when the bit is set.
RECURSIVE select_pairs_swapped(_, _, _, _)
select_pairs_swapped(ctx, arr, bit, i) ==
    IF i >= Len(arr) \div 2 THEN [ctx |-> ctx, out |-> <<>>]
    ELSE Only({Only({[ctx |-> rest.ctx, out |-> <<p.out>> \o rest.out] :
                 rest \in {select_pairs_swapped(p.ctx, arr, bit, i + 1)}}) :
                 p \in {conditional_select(ctx, bit, arr[i * 2 + 1], arr[i * 2 + 2])}})

\* One level of recursive_select: the pairs (2i, 2i + 1) selected by the bit.
RECURSIVE select_pairs(_, _, _, _)
select_pairs(ctx, arr, bit, i) ==
    IF i >= Len(arr) \div 2 THEN [ctx |-> ctx, out |-> <<>>]
    ELSE Only({Only({[ctx |-> rest.ctx, out |-> <<p.out>> \o rest.out] :
                 rest \in {select_pairs(p.ctx, arr, bit, i + 1)}}) :
                 p \in {conditional_select(ctx, bit, arr[i * 2 + 2], arr[i * 2 + 1])}})

RECURSIVE recursive_select(_, _, _)
recursive_select(ctx, arr, index_bits) ==
    IF Failed(ctx) THEN [ctx |-> ctx, out |-> new(NoneV, 0)]
    ELSE IF Len(arr) = 1 THEN [ctx |-> ctx, out |-> arr[1]]
    ELSE IF index_bits = <<>> THEN [ctx |-> Fail(ctx, "panic"), out |-> new(NoneV, 0)]
    ELSE Only({recursive_select(level.ctx,
                                IF Len(arr) % 2 = 1
                                THEN Append(level.out, arr[Len(arr)]) ELSE level.out,
                                Tail(index_bits)) :
                 level \in {select_pairs(ctx, arr, index_bits[1], 0)}})

array_get(ctx, arr, index) ==
    Only({recursive_select(b.ctx, arr, b.out) : b \in {bits(ctx, index, Len(arr))}})

RECURSIVE array_set_from(_, _, _, _, _)
array_set_from(ctx, arr, index, value, i) ==
    IF i > Len(arr) THEN [ctx |-> ctx, out |-> <<>>]
    ELSE Only({Only({Only({Only({[ctx |-> rest.ctx, out |-> <<v.out>> \o rest.out] :
                 rest \in {array_set_from(v.ctx, arr, index, value, i + 1)}}) :
                 v \in {conditional_select(cond.ctx, cond.out, value, arr[i])}}) :
                 cond \in {eq(curr_index.ctx, curr_index.out, index)}}) :
                 curr_index \in {constant_bigint(ctx, i - 1)}})

\* A scan that starts at the second slot.
array_set_second(ctx, arr, index, value) == array_set_from(ctx, arr, index, value, 2)

array_set(ctx, arr, index, value) == array_set_from(ctx, arr, index, value, 1)

(***************************************************************************)
(* The caller: a sequence of operations on one instance.  The caller holds *)
(* scalars, each declared with an integer type; an operation takes its     *)
(* operands from the end of the list and puts its results there.           *)
(***************************************************************************)

\* The bit length of the declared integer types.
IntBits == 2

\* The number of operations in one run.
MaxOps == 4

Unsigned == [signed |-> FALSE, length |-> IntBits]
Signed == [signed |-> TRUE, length |-> IntBits]
Types == {Unsigned, Signed}

TypeValues(ty) ==
    IF ty.signed THEN (-Pow2(ty.length - 1)) .. (Pow2(ty.length - 1) - 1)
    ELSE 0 .. (Pow2(ty.length) - 1)

\* The integer a scalar stands for.
IntOf(prim) == fr_to_bigint(Unwrap(prim.value))

InRange(ty, prim) == IsSome(prim.value) /\ IntOf(prim) \in TypeValues(ty)

Top(n) == regs[Len(regs) - n]

Popped(n) == SubSeq(regs, 1, Len(regs) - n)

Reg(prim, ty) == [prim |-> prim, ty |-> ty]

Running == ~Failed(ops) /\ steps < MaxOps

\* A call as the program makes it: the operation, and for a variable or a
\* constant the value given.
Call(name, args, outs) ==
    [op |-> name, input |-> IF args = <<>> /\ Len(outs) = 1 THEN outs[1].value ELSE NoneV]

\* The record of an operation: its operands, its results, the first
\* constraint it emitted, whether it returned Ok, and the operation before it.
Done(name, args, outs, ctx) ==
    [op |-> name, args |-> args, outs |-> outs,
     first |-> Len(ops.cons) + 1, ok |-> ~Failed(ctx), prev |-> res.op,
     log |-> Append(res.log, Call(name, args, outs))]

\* The constraints the last operation emitted are satisfied.
OpSatisfied == \A i \in res.first .. Len(ops.cons) : Holds(ops, ops.cons[i])

Idle ==
    /\ array = <<>>
    /\ conds = <<>>
    /\ loc = <<>>
    /\ pc = "idle"
    /\ twin = NoTwin

Init ==
    /\ ops = NewOps
    /\ regs = <<>>
    /\ res = [op |-> "none", log |-> <<>>]
    /\ steps = 0
    /\ Idle

Frame == UNCHANGED <<twin, array, conds, loc, pc>>

\* A witness variable of a declared type, its value in the type's range.
Variable(v, ty) ==
    /\ Running
    /\ Len(regs) < 2
    /\ Len(regs) = 1 => ty = regs[1].ty
    /\ \E r \in {variable_bigint(ops, v)} :
           /\ ops' = r.ctx
           /\ regs' = Append(regs, Reg(r.out, ty))
           /\ res' = Done("variable_bigint", <<>>, <<r.out>>, r.ctx)
    /\ steps' = steps + 1
    /\ Frame

Constant(v, ty) ==
    /\ Running
    /\ Len(regs) < 2
    /\ Len(regs) = 1 => ty = regs[1].ty
    /\ \E r \in {constant_bigint(ops, v)} :
           /\ ops' = r.ctx
           /\ regs' = Append(regs, Reg(r.out, ty))
           /\ res' = Done("constant_bigint", <<>>, <<r.out>>, r.ctx)
    /\ steps' = steps + 1
    /\ Frame

Binary(name, r) ==
    /\ ops' = r.ctx
    /\ regs' = Append(Popped(2), Reg(r.out, Top(1).ty))
    /\ res' = Done(name, <<Top(1), Top(0)>>, <<r.out>>, r.ctx)
    /\ steps' = steps + 1
    /\ Frame

Add ==
    /\ Running
    /\ Len(regs) >= 2
    /\ \E r \in {add(ops, Top(1).prim, Top(0).prim)} : Binary("add", r)

Sub ==
    /\ Running
    /\ Len(regs) >= 2
    /\ \E r \in {sub(ops, Top(1).prim, Top(0).prim)} : Binary("sub", r)

Mul ==
    /\ Running
    /\ Len(regs) >= 2
    /\ \E r \in {mul(ops, Top(1).prim, Top(0).prim)} : Binary("mul", r)

Neg ==
    /\ Running
    /\ Len(regs) >= 1
    /\ \E r \in {neg(ops, Top(0).prim)} :
           /\ ops' = r.ctx
           /\ regs' = Append(Popped(1), Reg(r.out, Top(0).ty))
           /\ res' = Done("neg", <<Top(0)>>, <<r.out>>, r.ctx)
    /\ steps' = steps + 1
    /\ Frame

DivRem ==
    /\ Running
    /\ Len(regs) >= 2
    /\ \E r \in {div_rem(ops, Top(1).prim, Top(0).prim)} :
           /\ ops' = r.ctx
           /\ regs' = Popped(2) \o <<Reg(r.quotient, Top(1).ty), Reg(r.remainder, Top(1).ty)>>
           /\ res' = Done("div_rem", <<Top(1), Top(0)>>, <<r.quotient, r.remainder>>, r.ctx)
    /\ steps' = steps + 1
    /\ Frame

\* The scalar at the end of the list is checked against its type.
TypeCheck ==
    /\ Running
    /\ Len(regs) >= 1
    /\ res.op # "type_check"
    /\ \E c \in {type_check(ops, Top(0).prim)} :
           /\ ops' = c
           /\ res' = Done("type_check", <<Top(0)>>, <<>>, c)
    /\ regs' = regs
    /\ steps' = steps + 1
    /\ Frame

Next ==
    \/ \E ty \in Types : \E v \in TypeValues(ty) : Variable(v, ty)
    \/ \E ty \in Types : \E v \in TypeValues(ty) : Constant(v, ty)
    \/ Add
    \/ Sub
    \/ Mul
    \/ Neg
    \/ DivRem
    \/ TypeCheck

Spec == Init /\ [][Next]_vars

(***************************************************************************)
(* C1.  A scalar that passes type_check is in the range of the integer     *)
(* type it was declared with: 0 <= value < 2^n for an unsigned type of n   *)
(* bits, -2^(n-1) <= value < 2^(n-1) for a signed one.                     *)
(***************************************************************************)
C1_TypeCheckInRange ==
    (res.op = "type_check" /\ res.ok /\ Satisfied(ops))
        => InRange(res.args[1].ty, res.args[1].prim)

(***************************************************************************)
(* C2.  For in-range integers a and b with b # 0, div_rem returns q and r  *)
(* with a = q*b + r and 0 <= r < |b|.                                      *)
(***************************************************************************)
DivRemCase ==
    /\ res.op = "div_rem"
    /\ InRange(res.args[1].ty, res.args[1].prim)
    /\ InRange(res.args[2].ty, res.args[2].prim)
    /\ IntOf(res.args[2].prim) # 0

C2_DivRemEuclidean ==
    DivRemCase =>
        /\ res.ok
        /\ LET a == IntOf(res.args[1].prim)
               b == IntOf(res.args[2].prim)
               q == IntOf(res.outs[1])
               r == IntOf(res.outs[2])
           IN  a = q * b + r /\ 0 <= r /\ r < Abs(b)

C2_Witness ==
    /\ DivRemCase
    /\ res.ok
    /\ IntOf(res.args[1].prim) < 0
    /\ IntOf(res.args[2].prim) < 0
    /\ IntOf(res.outs[2]) > 0

(***************************************************************************)
(* The prover's side of div_rem: the quotient and the remainder are        *)
(* witness values, and a prover may assign them any field elements.        *)
(***************************************************************************)

\* The integers a prover tries for the quotient and the remainder.
ForgeMax == 4

Forged == {Unwrap(bigint_to_fr(i)) : i \in (-ForgeMax) .. ForgeMax}

DivRemW(q, r) ==
    /\ Running
    /\ Len(regs) >= 2
    /\ res.op # "div_rem_w"
    /\ \E d \in {div_rem_w(ops, Top(1).prim, Top(0).prim, Some(q), Some(r))} :
           /\ ops' = d.ctx
           /\ regs' = Popped(2) \o <<Reg(d.quotient, Top(1).ty), Reg(d.remainder, Top(1).ty)>>
           /\ res' = Done("div_rem_w", <<Top(1), Top(0)>>, <<d.quotient, d.remainder>>, d.ctx)
    /\ steps' = steps + 1
    /\ Frame

NextDivForge ==
    \/ \E ty \in Types : \E v \in TypeValues(ty) : Variable(v, ty)
    \/ \E q \in Forged : \E r \in Forged : DivRemW(q, r)

SpecDivForge == Init /\ [][NextDivForge]_vars

\* The operands of the division are in range and the constraint system
\* div_rem built is satisfied by the prover's assignment.
DivRemAccepted ==
    /\ res.op = "div_rem_w"
    /\ InRange(res.args[1].ty, res.args[1].prim)
    /\ InRange(res.args[2].ty, res.args[2].prim)
    /\ res.ok
    /\ Satisfied(ops)

(***************************************************************************)
(* C3.  Every assignment of (q, r) that satisfies the constraints of       *)
(* div_rem, for a divisor b # 0, has a = q*b + r in the field and both     *)
(* 0 <= r and r < |b|.                                                     *)
(***************************************************************************)
C3_ConstraintsEnforceEuclid ==
    (DivRemAccepted /\ IntOf(res.args[2].prim) # 0) =>
        LET a == IntOf(res.args[1].prim)
            b == IntOf(res.args[2].prim)
            q == IntOf(res.outs[1])
            r == IntOf(res.outs[2])
        IN  Mod(a) = Mod(q * b + r) /\ 0 <= r /\ r < Abs(b)

(***************************************************************************)
(* C4.  With a divisor of value 0 div_rem never ends successfully with a   *)
(* satisfied constraint system, whatever the dividend and the witness.     *)
(***************************************************************************)
C4_DivisionByZeroRejected ==
    ~(DivRemAccepted /\ IntOf(res.args[2].prim) = 0)

(***************************************************************************)
(* The prover's side of conditional_select and assert: the selected value  *)
(* and the inverse are witness values.  The condition is a scalar the      *)
(* caller passes; its value is whatever was computed for it.               *)
(***************************************************************************)

\* The largest value of a scalar passed as a condition.
CondMax == 2

Boolean == [signed |-> FALSE, length |-> 1]

Condition(c) ==
    /\ Running
    /\ Len(regs) = 2
    /\ pc = "idle"
    /\ \E r \in {variable_bigint(ops, c)} :
           /\ ops' = r.ctx
           /\ regs' = Append(regs, Reg(r.out, Boolean))
           /\ res' = Done("variable_bigint", <<>>, <<r.out>>, r.ctx)
    /\ steps' = steps + 1
    /\ Frame

\* The condition is the last scalar, before it if_false, before that if_true.
Selected(name, r) ==
    /\ ops' = r.ctx
    /\ regs' = <<Reg(r.out, Top(2).ty)>>
    /\ res' = Done(name, <<Top(0), Top(2), Top(1)>>, <<r.out>>, r.ctx)
    /\ steps' = steps + 1
    /\ Frame

ConditionalSelect ==
    /\ Running
    /\ Len(regs) = 3
    /\ \E r \in {conditional_select(ops, Top(0).prim, Top(2).prim, Top(1).prim)} :
           Selected("conditional_select", r)

ConditionalSelectW(s) ==
    /\ Running
    /\ Len(regs) = 3
    /\ \E r \in {conditional_select_w(ops, Top(0).prim, Top(2).prim, Top(1).prim, Some(s))} :
           Selected("conditional_select_w", r)

\* The scalar asserted is a declared one or the result of a selection.
Asserted(name, c) ==
    /\ ops' = c
    /\ res' = Done(name, <<Top(0)>>, <<>>, c)
    /\ regs' = regs
    /\ steps' = steps + 1
    /\ Frame

AssertOp ==
    /\ Running
    /\ Len(regs) = 1
    /\ res.op \in {"variable_bigint", "conditional_select"}
    /\ \E c \in {assert(ops, Top(0).prim)} : Asserted("assert", c)

AssertW(w) ==
    /\ Running
    /\ Len(regs) = 1
    /\ res.op \in {"variable_bigint", "conditional_select"}
    /\ \E c \in {assert_w(ops, Top(0).prim, Some(w))} : Asserted("assert_w", c)

NextForge ==
    \/ \E ty \in Types : \E v \in TypeValues(ty) : Variable(v, ty)
    \/ \E c \in 0 .. CondMax : Condition(c)
    \/ ConditionalSelect
    \/ \E s \in Fp : ConditionalSelectW(s)
    \/ AssertOp
    \/ \E w \in Fp : AssertW(w)

SpecForge == Init /\ [][NextForge]_vars

(***************************************************************************)
(* C6.  conditional_select proves its condition Boolean: with a condition  *)
(* value outside {0, 1} and if_true # if_false, no value of the result     *)
(* satisfies the constraints it emits.                                     *)
(***************************************************************************)
C6_ConditionProvenBoolean ==
    ( /\ res.op \in {"conditional_select", "conditional_select_w"}
      /\ Unwrap(res.args[1].prim.value) \notin {0, 1}
      /\ res.args[2].prim.value # res.args[3].prim.value )
        => ~(res.ok /\ OpSatisfied)

(***************************************************************************)
(* C7.  assert(v) emits v * w = 1 for a witness w: when v = 0 no witness   *)
(* satisfies it, and when v # 0 the operation succeeds and the witness it  *)
(* computes satisfies it.                                                  *)
(***************************************************************************)
C7_AssertNonZero ==
    (res.op \in {"assert", "assert_w"}) =>
        LET v == Unwrap(res.args[1].prim.value)
        IN  /\ v = 0 => ~(res.ok /\ OpSatisfied)
            /\ (v # 0 /\ res.op = "assert") => (res.ok /\ OpSatisfied)

C7_Witness ==
    /\ res.op = "assert"
    /\ Unwrap(res.args[1].prim.value) = 0
    /\ res.ok
    /\ ~OpSatisfied

(***************************************************************************)
(* Branching.  Both arms of a conditional are executed; the condition      *)
(* stack holds the conjunction of the enclosing guards, and a write puts   *)
(* conditional_select(active condition, new value, old value) in the       *)
(* location.  Else inverts the top of the stack and EndIf pops it.         *)
(***************************************************************************)

\* The values the location may hold before the conditional.
LocalValues == {0, 1}

\* The active condition: the top of the condition stack, true without one.
condition_top == IF conds = <<>> THEN one ELSE conds[Len(conds)]

\* The location written by both arms, with the value it held before.
Local(v) ==
    /\ Running
    /\ Len(regs) = 3
    /\ loc = <<>>
    /\ \E r \in {variable_bigint(ops, v)} :
           /\ ops' = r.ctx
           /\ loc' = <<r.out>>
           /\ res' = Done("variable_bigint", <<>>, <<r.out>>, r.ctx)
    /\ steps' = steps + 1
    /\ UNCHANGED <<twin, regs, array, conds, pc>>

\* An enclosing block whose guard is true.
Block ==
    /\ ~Failed(ops)
    /\ pc = "idle"
    /\ loc # <<>>
    /\ conds = <<>>
    /\ res.op = "variable_bigint"
    /\ conds' = <<one>>
    /\ res' = Done("Block", <<>>, <<>>, ops)
    /\ UNCHANGED <<twin, ops, regs, array, loc, pc, steps>>

\* The program is `if !c { write b } else { write a }`: the guard is negated.
Negate ==
    /\ ~Failed(ops)
    /\ pc = "idle"
    /\ loc # <<>>
    /\ res.op # "not"
    /\ \E r \in {not(ops, Top(0).prim)} :
           /\ ops' = r.ctx
           /\ regs' = Append(Popped(1), Reg(r.out, Boolean))
           /\ res' = Done("not", <<Top(0)>>, <<r.out>>, r.ctx)
    /\ UNCHANGED <<twin, array, conds, loc, pc, steps>>

\* If: the guard is pushed, conjoined with the active condition.  The record
\* keeps the condition c, the values a and b, the stack before the If, and
\* whether the arms are swapped.
If ==
    /\ ~Failed(ops)
    /\ pc = "idle"
    /\ loc # <<>>
    /\ \E r \in {and(ops, condition_top, Top(0).prim)} :
           /\ ops' = r.ctx
           /\ conds' = Append(conds, r.out)
           /\ res' = Done("If",
                          <<IF res.op = "not" THEN res.args[1] ELSE Top(0),
                            Top(2), Top(1), conds, res.op = "not">>,
                          <<r.out>>, r.ctx)
    /\ pc' = "then"
    /\ UNCHANGED <<twin, regs, array, loc, steps>>

\* The value the arm being executed writes.
ArmValue ==
    IF (pc = "then") = res.args[5] THEN res.args[3].prim ELSE res.args[2].prim

\* A write in an arm, gated by the active condition.
Store ==
    /\ ~Failed(ops)
    /\ pc \in {"then", "else"}
    /\ \E r \in {conditional_select(ops, condition_top, ArmValue, loc[1])} :
           /\ ops' = r.ctx
           /\ loc' = <<r.out>>
           /\ res' = Done("Store", res.args, <<r.out>>, r.ctx)
    /\ pc' = IF pc = "then" THEN "then_end" ELSE "else_end"
    /\ UNCHANGED <<twin, regs, array, conds, steps>>

\* Else: the top condition is inverted.
Else ==
    /\ ~Failed(ops)
    /\ pc = "then_end"
    /\ \E r \in {not(ops, condition_top)} :
           /\ ops' = r.ctx
           /\ conds' = [conds EXCEPT ![Len(conds)] = r.out]
           /\ res' = Done("Else", res.args, <<r.out>>, r.ctx)
    /\ pc' = "else"
    /\ UNCHANGED <<twin, regs, array, loc, steps>>

\* EndIf: the top condition is popped.
EndIf ==
    /\ ~Failed(ops)
    /\ pc = "else_end"
    /\ conds' = SubSeq(conds, 1, Len(conds) - 1)
    /\ res' = Done("EndIf", res.args, <<>>, ops)
    /\ pc' = "end"
    /\ UNCHANGED <<twin, ops, regs, array, loc, steps>>

NextBranch ==
    \/ \E ty \in Types : \E v \in TypeValues(ty) : Variable(v, ty)
    \/ \E c \in 0 .. CondMax : Condition(c)
    \/ \E v \in LocalValues : Local(v)
    \/ Block
    \/ Negate
    \/ If
    \/ Store
    \/ Else
    \/ EndIf

SpecBranch == Init /\ [][NextBranch]_vars

(***************************************************************************)
(* C5.  After `if c { write a } else { write b }` with a Boolean c, in     *)
(* either order of the arms, the location holds a when c is true and b     *)
(* otherwise, the constraint system is satisfied, and the condition stack  *)
(* is the one before the If.                                               *)
(***************************************************************************)
C5_BranchWrites ==
    (pc = "end" /\ Unwrap(res.args[1].prim.value) \in {0, 1}) =>
        /\ res.ok
        /\ Satisfied(ops)
        /\ loc[1].value = (IF Unwrap(res.args[1].prim.value) = 1
                           THEN res.args[2].prim.value
                           ELSE res.args[3].prim.value)
        /\ conds = res.args[4]

C5_Witness ==
    /\ pc = "end"
    /\ res.args[5]
    /\ Unwrap(res.args[1].prim.value) = 1
    /\ res.args[2].prim.value # res.args[3].prim.value
    /\ loc[1].value = res.args[2].prim.value
    /\ loc[1].value # Some(1)
    /\ conds = <<one>>

(***************************************************************************)
(* Arrays.  The caller builds an array element by element, declares an     *)
(* index and a value, and reads or writes the array at the index.          *)
(***************************************************************************)

\* The largest array length.
MaxLen == 5

ElementValues == {0, 1}

StoredValues == {0, 1, 2}

Element(v) ==
    /\ ~Failed(ops)
    /\ pc = "idle"
    /\ regs = <<>>
    /\ Len(array) < MaxLen
    /\ \E r \in {variable_bigint(ops, v)} :
           /\ ops' = r.ctx
           /\ array' = Append(array, r.out)
           /\ res' = Done("variable_bigint", <<>>, <<r.out>>, r.ctx)
    /\ UNCHANGED <<twin, regs, conds, loc, pc, steps>>

\* The index and the value are the first and the second scalar.
Operand(v) ==
    /\ ~Failed(ops)
    /\ pc = "idle"
    /\ \E r \in {variable_bigint(ops, v)} :
           /\ ops' = r.ctx
           /\ regs' = Append(regs, Reg(r.out, Unsigned))
           /\ res' = Done("variable_bigint", <<>>, <<r.out>>, r.ctx)
    /\ UNCHANGED <<twin, array, conds, loc, pc, steps>>

Index(i) == regs = <<>> /\ Operand(i)

Value(v) == Len(regs) = 1 /\ Operand(v)

ArrayGet ==
    /\ ~Failed(ops)
    /\ pc \in {"idle", "set"}
    /\ Len(regs) >= 1
    /\ \E r \in {array_get(ops, array, regs[1].prim)} :
           /\ ops' = r.ctx
           /\ res' = Done("array_get", <<array, regs[1]>>, <<r.out>>, r.ctx)
    /\ pc' = "got"
    /\ UNCHANGED <<twin, regs, array, conds, loc, steps>>

ArraySet ==
    /\ ~Failed(ops)
    /\ pc = "idle"
    /\ Len(regs) = 2
    /\ \E r \in {array_set(ops, array, regs[1].prim, regs[2].prim)} :
           /\ ops' = r.ctx
           /\ array' = r.out
           /\ res' = Done("array_set", <<array, regs[1], regs[2]>>, r.out, r.ctx)
    /\ pc' = "set"
    /\ UNCHANGED <<twin, regs, conds, loc, steps>>

NextArray ==
    \/ \E v \in ElementValues : Element(v)
    \/ \E i \in 0 .. MaxLen : Index(i)
    \/ \E v \in StoredValues : Value(v)
    \/ ArrayGet
    \/ ArraySet

SpecArray == Init /\ [][NextArray]_vars

\* The index of the last array operation is below the length of its array.
IndexInBounds ==
    /\ 0 <= IntOf(res.args[2].prim)
    /\ IntOf(res.args[2].prim) < Len(res.args[1])

(***************************************************************************)
(* C8.  An array access, array_get or array_set, with an index that is not *)
(* below the length of the array never ends successfully with a satisfied  *)
(* constraint system.                                                      *)
(***************************************************************************)
C8_AccessBoundsChecked ==
    (res.op \in {"array_get", "array_set"} /\ ~IndexInBounds)
        => ~(res.ok /\ Satisfied(ops))

(***************************************************************************)
(* C9.  For an array of length n >= 1 and an index i < n, array_get        *)
(* succeeds, its constraints are satisfied, and it returns array[i].       *)
(***************************************************************************)
C9_ArrayGetSelects ==
    (res.op = "array_get" /\ IndexInBounds) =>
        /\ res.ok
        /\ Satisfied(ops)
        /\ res.outs[1].value = res.args[1][IntOf(res.args[2].prim) + 1].value

C9_Witness ==
    /\ res.op = "array_get"
    /\ res.prev # "array_set"
    /\ Len(res.args[1]) = 5
    /\ IntOf(res.args[2].prim) = 4
    /\ res.args[1][5].value = Some(1)
    /\ \A j \in 1 .. 4 : res.args[1][j].value = Some(0)
    /\ res.ok
    /\ res.outs[1].value = Some(1)

(***************************************************************************)
(* C10.  For an index i below the length, array_set returns an array of    *)
(* the same length whose slot i holds the value and whose other slots hold *)
(* what they held; array_get of the result at i returns the value.         *)
(***************************************************************************)
C10_ArraySetReplacesSlot ==
    /\ (res.op = "array_set" /\ IndexInBounds) =>
           /\ res.ok
           /\ Satisfied(ops)
           /\ Len(res.outs) = Len(res.args[1])
           /\ \A j \in 1 .. Len(res.args[1]) :
                  res.outs[j].value = IF j = IntOf(res.args[2].prim) + 1
                                      THEN res.args[3].prim.value
                                      ELSE res.args[1][j].value
    /\ (res.op = "array_get" /\ res.prev = "array_set" /\ IndexInBounds) =>
           res.outs[1].value = regs[2].prim.value

C10_Witness ==
    /\ res.op = "array_get"
    /\ res.prev = "array_set"
    /\ IndexInBounds
    /\ Len(res.args[1]) = 3
    /\ IntOf(res.args[2].prim) = 1
    /\ regs[2].prim.value = Some(2)
    /\ res.outs[1].value = Some(2)
    /\ res.args[1][1].value = Some(0)
    /\ res.args[1][3].value = Some(1)

(***************************************************************************)
(* The comparisons.  The operands are two witness variables, either of an  *)
(* integer type with values in its range or any two elements of the        *)
(* field; the caller applies lt, le, eq, ne, ge and gt to them in this     *)
(* order and keeps the results, or applies le alone.                       *)
(***************************************************************************)

\* The field type: its values are all the elements of the field.
Field == [signed |-> FALSE, length |-> NUM_BITS]

FieldElement(v) ==
    /\ Running
    /\ Len(regs) < 2
    /\ Len(regs) = 1 => regs[1].ty = Field
    /\ \E r \in {variable_bigint(ops, v)} :
           /\ ops' = r.ctx
           /\ regs' = Append(regs, Reg(r.out, Field))
           /\ res' = Done("variable_bigint", <<>>, <<r.out>>, r.ctx)
    /\ steps' = steps + 1
    /\ Frame

\* The results of the comparisons made so far on the two operands.
Compared == IF res.op = "variable_bigint" THEN <<>> ELSE res.outs

Comparison(name, r) ==
    /\ ops' = r.ctx
    /\ regs' = regs
    /\ res' = Done(name, <<Top(1), Top(0)>>, Append(Compared, r.out), r.ctx)
    /\ steps' = steps + 1
    /\ Frame

Lt ==
    /\ ~Failed(ops)
    /\ Len(regs) = 2
    /\ res.op = "variable_bigint"
    /\ \E r \in {lt(ops, Top(1).prim, Top(0).prim)} : Comparison("lt", r)

Le ==
    /\ ~Failed(ops)
    /\ Len(regs) = 2
    /\ res.op \in {"variable_bigint", "lt"}
    /\ \E r \in {le(ops, Top(1).prim, Top(0).prim)} : Comparison("le", r)

Eq ==
    /\ ~Failed(ops)
    /\ res.op = "le"
    /\ Len(res.outs) = 2
    /\ \E r \in {eq(ops, Top(1).prim, Top(0).prim)} : Comparison("eq", r)

Ne ==
    /\ ~Failed(ops)
    /\ res.op = "eq"
    /\ \E r \in {ne(ops, Top(1).prim, Top(0).prim)} : Comparison("ne", r)

Ge ==
    /\ ~Failed(ops)
    /\ res.op = "ne"
    /\ \E r \in {ge(ops, Top(1).prim, Top(0).prim)} : Comparison("ge", r)

Gt ==
    /\ ~Failed(ops)
    /\ res.op = "ge"
    /\ \E r \in {gt(ops, Top(1).prim, Top(0).prim)} : Comparison("gt", r)

NextCompare ==
    \/ \E ty \in Types : \E v \in TypeValues(ty) : Variable(v, ty)
    \/ \E v \in Fp : FieldElement(v)
    \/ Lt
    \/ Le
    \/ Eq
    \/ Ne
    \/ Ge
    \/ Gt

SpecCompare == Init /\ [][NextCompare]_vars

\* 1 for a true statement and 0 for a false one.
Indicator(b) == IF b THEN 1 ELSE 0

\* The value a comparison returned, -1 when there is none.
Outcome(prim) == IF IsSome(prim.value) THEN Unwrap(prim.value) ELSE -1

(***************************************************************************)
(* C11.  le(a, b) returns 1 exactly when d = (b - a) mod p is the          *)
(* repacking of its low CAPACITY - 1 bits, that is when                    *)
(* d < 2^(CAPACITY - 1); so for all a, b with |b - a| < 2^(CAPACITY - 1),  *)
(* as integers in 0 .. p-1 or as signed integers, it returns 1 iff         *)
(* a <= b; and the result is always 0 or 1.                                *)
(***************************************************************************)
C11_LeByRepacking ==
    res.op = "le" =>
        LET a == Unwrap(res.args[1].prim.value)
            b == Unwrap(res.args[2].prim.value)
            d == Mod(b - a)
            r == Outcome(res.outs[Len(res.outs)])
            sa == IntOf(res.args[1].prim)
            sb == IntOf(res.args[2].prim)
        IN  /\ res.ok
            /\ Satisfied(ops)
            /\ r \in {0, 1}
            /\ r = Indicator(d = d % Pow2(CAPACITY - 1))
            /\ r = Indicator(d < Pow2(CAPACITY - 1))
            /\ Abs(b - a) < Pow2(CAPACITY - 1) => r = Indicator(a <= b)
            /\ Abs(sb - sa) < Pow2(CAPACITY - 1) => r = Indicator(sa <= sb)

\* le has returned 0 for two elements of the field whose difference b - a is
\* positive as an integer and too large to be its own repacking.
C11_Witness ==
    /\ res.op = "le"
    /\ res.args[1].ty = Field
    /\ Unwrap(res.args[2].prim.value) - Unwrap(res.args[1].prim.value) >= Pow2(CAPACITY - 1)
    /\ Outcome(res.outs[Len(res.outs)]) = 0

(***************************************************************************)
(* C12.  For in-range integers a and b of one type, signed or unsigned,    *)
(* b = 0 and the least value of the type included, the six comparisons     *)
(* are Booleans consistent with each other: lt(a, b) = le(a, b - 1),       *)
(* ge = not lt, gt = not le, ne = not eq, exactly one of lt, eq and gt is  *)
(* 1, and each is the integer order of a and b.                            *)
(***************************************************************************)
SixCompared ==
    /\ res.op = "gt"
    /\ Len(res.outs) = 6
    /\ res.args[1].ty \in Types
    /\ InRange(res.args[1].ty, res.args[1].prim)
    /\ InRange(res.args[2].ty, res.args[2].prim)

C12_ComparisonsConsistent ==
    SixCompared =>
        LET a == IntOf(res.args[1].prim)
            b == IntOf(res.args[2].prim)
            r == [i \in 1 .. 6 |-> Outcome(res.outs[i])]
        IN  /\ res.ok
            /\ Satisfied(ops)
            /\ \A i \in 1 .. 6 : r[i] \in {0, 1}
            /\ r[1] = Indicator(Mod(b - 1 - a) < Pow2(CAPACITY - 1))
            /\ r[5] = 1 - r[1]
            /\ r[6] = 1 - r[2]
            /\ r[4] = 1 - r[3]
            /\ r[1] + r[3] + r[6] = 1
            /\ r[1] = Indicator(a < b)
            /\ r[2] = Indicator(a <= b)
            /\ r[3] = Indicator(a = b)
            /\ r[4] = Indicator(a # b)
            /\ r[5] = Indicator(a >= b)
            /\ r[6] = Indicator(a > b)

\* The six comparisons of the least value of a signed type with 0.
C12_Witness ==
    /\ SixCompared
    /\ res.args[1].ty = Signed
    /\ IntOf(res.args[1].prim) = -Pow2(IntBits - 1)
    /\ IntOf(res.args[2].prim) = 0
    /\ Outcome(res.outs[1]) = 1

(***************************************************************************)
(* The arithmetic and the logical operations in sequence.  The operands    *)
(* are witness variables and constants of one integer type, with values    *)
(* in its range, or Booleans; a result takes the place of its operands     *)
(* and is an operand of what follows.                                      *)
(***************************************************************************)

Arithmetic == Len(regs) >= 1 /\ Top(0).ty \in Types

Logical == Len(regs) >= 1 /\ Top(0).ty = Boolean

Unary(name, r) ==
    /\ ops' = r.ctx
    /\ regs' = Append(Popped(1), Reg(r.out, Top(0).ty))
    /\ res' = Done(name, <<Top(0)>>, <<r.out>>, r.ctx)
    /\ steps' = steps + 1
    /\ Frame

Not ==
    /\ Running
    /\ Logical
    /\ \E r \in {not(ops, Top(0).prim)} : Unary("not", r)

And ==
    /\ Running
    /\ Len(regs) >= 2
    /\ Logical
    /\ \E r \in {and(ops, Top(1).prim, Top(0).prim)} : Binary("and", r)

Or ==
    /\ Running
    /\ Len(regs) >= 2
    /\ Logical
    /\ \E r \in {or(ops, Top(1).prim, Top(0).prim)} : Binary("or", r)

Xor ==
    /\ Running
    /\ Len(regs) >= 2
    /\ Logical
    /\ \E r \in {xor(ops, Top(1).prim, Top(0).prim)} : Binary("xor", r)

\* gadgets::logical::and of the virtual machine, on two cells of the
\* evaluation stack: both are to be of the Boolean type.
logical_and(ctx, left, right) ==
    IF left.ty # Boolean \/ right.ty # Boolean
    THEN [ctx |-> Fail(ctx, "TypeError"), out |-> new(NoneV, 0)]
    ELSE LET value == IF Both(left.prim, right.prim)
                      THEN Some(Mod(Unwrap(left.prim.value) * Unwrap(right.prim.value)))
                      ELSE NoneV
             ns == ns_name(ctx)
             v  == NextVar(ctx)
         IN  [ctx |-> emit(cs_namespace(ctx),
                           AllocatedNum_alloc(namespace(ns, "value"), value)
                           \o <<Enforce(ns, "equality",
                                        LcVar(left.prim.variable),
                                        LcVar(right.prim.variable), LcVar(v))>>),
              out |-> new(value, v)]

LogicalAnd ==
    /\ Running
    /\ Len(regs) >= 2
    /\ \E r \in {logical_and(ops, Top(1), Top(0))} :
           /\ ops' = r.ctx
           /\ regs' = Append(Popped(2), Reg(r.out, Boolean))
           /\ res' = Done("logical_and", <<Top(1), Top(0)>>, <<r.out>>, r.ctx)
    /\ steps' = steps + 1
    /\ Frame

\* The scalar at the end of the list is made a public output.
Output ==
    /\ Running
    /\ Len(regs) >= 1
    /\ res.op # "output"
    /\ \E r \in {output(ops, Top(0).prim)} : Unary("output", r)

NextOps ==
    \/ \E ty \in Types \cup {Boolean} : \E v \in TypeValues(ty) : Variable(v, ty)
    \/ \E ty \in Types \cup {Boolean} : \E v \in TypeValues(ty) : Constant(v, ty)
    \/ Arithmetic /\ Add
    \/ Arithmetic /\ Sub
    \/ Arithmetic /\ Mul
    \/ Arithmetic /\ Neg
    \/ Not
    \/ And
    \/ Or
    \/ Xor
    \/ LogicalAnd
    \/ Output

SpecOps == Init /\ [][NextOps]_vars

\* The result of an operation on the elements a and b of the field, by the
\* arithmetic of the field and the truth tables.
Reference(name, a, b) ==
    CASE name = "add" -> Mod(a + b)
      [] name = "sub" -> Mod(a - b)
      [] name = "mul" -> Mod(a * b)
      [] name = "neg" -> Mod(0 - a)
      [] name = "not" -> Indicator(a = 0)
      [] name = "and" -> Indicator(a = 1 /\ b = 1)
      [] name = "logical_and" -> Indicator(a = 1 /\ b = 1)
      [] name = "or" -> Indicator(a = 1 \/ b = 1)
      [] name = "xor" -> Indicator(a # b)
      [] name = "output" -> a

\* The result of an arithmetic operation on the integers a and b.
IntegerReference(name, a, b) ==
    CASE name = "add" -> a + b
      [] name = "sub" -> a - b
      [] name = "mul" -> a * b
      [] name = "neg" -> 0 - a
      [] name = "output" -> a
      [] OTHER -> 0

\* The integers a scalar of the field stands for without wrapping.
Representable(i) == 2 * Abs(i) < P

(***************************************************************************)
(* C13.  After any successful sequence of add, sub, mul, neg, of not,      *)
(* and, or, xor on Booleans, of output and of constants, on operands with  *)
(* known in-range values, every value returned is the reference result     *)
(* (the integer result such as 1 + 2 = 3, and the product for and, the     *)
(* truth table for or and xor), and the witness collected so far           *)
(* satisfies every constraint emitted so far.                              *)
(***************************************************************************)
C13_ValuesAndConstraints ==
    /\ ~Failed(ops) => Satisfied(ops)
    /\ (res.op \in {"variable_bigint", "constant_bigint"} /\ res.ok) =>
           /\ InRange(Top(0).ty, res.outs[1])
           /\ ValOf(ops, res.outs[1].variable) = Unwrap(res.outs[1].value)
    /\ (res.op = "logical_and" /\ res.args[1].ty # Boolean) => ~res.ok
    /\ (res.op \in {"add", "sub", "mul", "neg", "not", "and", "or", "xor", "output"}
                   \cup (IF res.op = "logical_and" /\ res.args[1].ty = Boolean
                         THEN {"logical_and"} ELSE {})
          /\ \A i \in 1 .. Len(res.args) : InRange(res.args[i].ty, res.args[i].prim)) =>
           LET a == res.args[1].prim
               b == res.args[Len(res.args)].prim
               r == res.outs[1]
               i == IntegerReference(res.op, IntOf(a), IntOf(b))
           IN  /\ res.ok
               /\ Outcome(r) = Reference(res.op, Unwrap(a.value), Unwrap(b.value))
               /\ ValOf(ops, r.variable) = Outcome(r)
               /\ res.args[1].ty = Boolean => Outcome(r) \in {0, 1}
               /\ (res.args[1].ty \in Types /\ Representable(i)) => IntOf(r) = i

\* The sum 1 + 2 = 3 of two unsigned variables, made a public output.
C13_Witness ==
    /\ res.op = "output"
    /\ res.prev = "add"
    /\ res.ok
    /\ res.args[1].ty = Unsigned
    /\ IntOf(res.outs[1]) = 3
    /\ ops.vars[1].val = 1
    /\ ops.vars[2].val = 2

(***************************************************************************)
(* Two runs in one process.  A run makes its calls on a new instance;      *)
(* when it has ended, a second run starts on another new instance and      *)
(* makes the same calls with the same values.                              *)
(***************************************************************************)

\* The first run ends here and the second one starts: ConstrainingFrOperations::new.
Restart ==
    /\ twin = NoTwin
    /\ res.log # <<>>
    /\ twin' = [log |-> res.log, ops |-> ops]
    /\ ops' = NewOps
    /\ regs' = <<>>
    /\ res' = [op |-> "none", log |-> <<>>]
    /\ steps' = 0
    /\ UNCHANGED <<array, conds, loc, pc>>

\* The call made is the one the earlier run made at this point.
Follows ==
    \/ twin = NoTwin
    \/ /\ Len(res'.log) <= Len(twin.log)
       /\ res'.log = SubSeq(twin.log, 1, Len(res'.log))

NextTwice ==
    \/ \E ty \in Types : \E v \in TypeValues(ty) : Variable(v, ty) /\ Follows
    \/ Mul /\ Follows
    \/ DivRem /\ Follows
    \/ Restart

SpecTwice == Init /\ [][NextTwice]_vars

IsPrefix(s, t) == Len(s) <= Len(t) /\ s = SubSeq(t, 1, Len(s))

NextNames ==
    \/ Element(0)
    \/ \E i \in 0 .. MaxLen : Index(i)
    \/ \E v \in StoredValues : Value(v)
    \/ Lt
    \/ ArraySet
    \/ ArrayGet
    \/ pc = "got" /\ DivRem

SpecNames == Init /\ [][NextNames]_vars

\* The full names of the variables and of the constraints of cs.
FullNames(ctx) ==
    {ctx.vars[i].name : i \in 1 .. Len(ctx.vars)}
        \cup {ctx.cons[i].name : i \in 1 .. Len(ctx.cons)}

NamesDistinct(ctx) ==
    /\ Cardinality(FullNames(ctx)) = Len(ctx.vars) + Len(ctx.cons)
    /\ \A i \in 1 .. Len(ctx.spaces) : \A j \in 1 .. Len(ctx.spaces) :
           ctx.spaces[i] = ctx.spaces[j] => i = j

\* The counter has not decreased and has advanced by the number of
\* namespaces opened.
CounterAdvanced ==
    /\ ops'.counter >= ops.counter
    /\ IsPrefix(ops.spaces, ops'.spaces)
    /\ ops'.counter - ops.counter = Len(ops'.spaces) - Len(ops.spaces)

(***************************************************************************)
(* C15.  After any sequence of operations on one instance, operations      *)
(* that call other operations (div_rem, lt, abs, array_get, array_set)     *)
(* included, the namespace counter has only increased, by exactly one per  *)
(* namespace opened, and no two variables or constraints of the            *)
(* constraint system have the same full name.                              *)
(***************************************************************************)
C15_NamesUnique ==
    /\ [](NamesDistinct(ops) /\ ops.counter = Len(ops.spaces))
    /\ [][CounterAdvanced]_vars

\* lt, array_set, array_get and div_rem have been carried out on one instance.
C15_Witness ==
    /\ res.op = "div_rem"
    /\ res.ok
    /\ pc = "got"
    /\ Len(array) >= 2
    /\ \E i \in 1 .. Len(res.log) : res.log[i].op = "lt"
    /\ \E i \in 1 .. Len(res.log) : res.log[i].op = "array_set"
    /\ ops.counter > Len(res.log)

(***************************************************************************)
(* The standard library of the virtual machine: std::convert::to_bits and  *)
(* from_bits_signed, and std::crypto::schnorr::verify.  The cells of the   *)
(* evaluation stack are the scalars of regs with their types; the last is  *)
(* the top of the stack.  A call gets the number of its arguments from the *)
(* instruction and takes them from the stack.                              *)
(***************************************************************************)

\* The integer type of a given signedness and bitlength.
IntegerType(is_signed, bitlength) == [signed |-> is_signed, length |-> bitlength]

\* The i-th cell a call pops from the stack, i = 1 for the first.
Pop(stack, i) == stack[Len(stack) - i + 1]

\* What is left of the stack when n cells have been popped.
Rest(stack, n) == SubSeq(stack, 1, IF n >= Len(stack) THEN 0 ELSE Len(stack) - n)

\* The pops of a call that fail: of an empty stack, or (typed) of a cell
\* that is not of the expected type.
BadPops(stack, n, typed) ==
    {i \in 1 .. n : i > Len(stack) \/ (typed /\ Pop(stack, i).ty # Boolean)}

PopError(stack, i) == IF i > Len(stack) THEN "StackUnderflow" ELSE "TypeError"

\* to_bits: n bits of the integer, of a signed one after adding 2^(n-1) and
\* with the sign bit flipped; the least significant bit is pushed last.
to_bits(ctx, stack) ==
    LET cell == Pop(stack, 1)
        n  == cell.ty.length
        ns == ns_name(ctx)
        v  == NextVar(ctx)
        shift == IF cell.ty.signed THEN Pow2(n - 1) ELSE 0
        shifted == IF IsSome(cell.prim.value)
                   THEN Some(Mod(Unwrap(cell.prim.value) + shift)) ELSE NoneV
        booleans == BitsOf(shifted, n, v)
        sign == booleans[n]
        flipped == [value |-> IF IsSome(sign.value) THEN Some(1 - Unwrap(sign.value)) ELSE NoneV,
                    variable |-> v + n]
        top == IF cell.ty.signed THEN flipped ELSE sign
    IN  [ctx |-> emit(cs_namespace(ctx),
                      AllocBits(namespace(ns, "bits"), shifted, n, v)
                      \o <<Enforce(ns, "unpacking constraint", PackedLC(booleans), LcOne,
                                   << <<1, cell.prim.variable>>, <<shift, 0>> >>),
                           Alloc(ns, "sign", flipped.value, "aux"),
                           Enforce(ns, "sign constraint",
                                   << <<1, 0>>, <<-1, sign.variable>> >>, LcOne,
                                   LcVar(flipped.variable))>>),
         stack |-> Rest(stack, 1)
                   \o <<Reg(new(top.value, top.variable), Boolean)>>
                   \o [i \in 1 .. n - 1 |->
                         Reg(new(booleans[n - i].value, booleans[n - i].variable), Boolean)]]

\* BigInt::from(1) << (bitlength - 1): half the base.
base_value_halved(bitlength) == Pow2(bitlength - 1)

\* BigInt::from(1) << bitlength
base_value(bitlength) == Pow2(bitlength)

\* SignedFromBits::call
from_bits_signed(ctx, bitlength, stack) ==
    LET bad == BadPops(stack, bitlength, TRUE)
    IN  IF bitlength >= CAPACITY
        THEN [ctx |-> Fail(ctx, "MalformedBytecode"), stack |-> stack]
        ELSE IF bad # {}
        THEN [ctx |-> Fail(ctx, PopError(stack, MinOf(bad))),
              stack |-> Rest(stack, MinOf(bad))]
        ELSE IF bitlength = 0
        THEN \* bits[self.bitlength - 1] of an empty vector
             [ctx |-> Fail(ctx, "panic"), stack |-> stack]
        ELSE LET booleans == [i \in 1 .. bitlength |-> Pop(stack, i).prim]
                 sign_bit == booleans[bitlength]
                 not_sign == [value |-> IF IsSome(sign_bit.value)
                                        THEN Some(1 - Unwrap(sign_bit.value)) ELSE NoneV,
                              variable |-> 0]
                 packed == PackedValue(booleans \o <<not_sign>>)
                 value == IF IsSome(packed)
                          THEN Some(Mod(Unwrap(packed) - base_value(bitlength))) ELSE NoneV
                 ns == ns_name(ctx)
                 v  == NextVar(ctx)
             IN  [ctx |-> emit(cs_namespace(ctx),
                               <<Alloc(namespace(ns, "pack_bits_to_element"), "variable",
                                       packed, "aux"),
                                 Enforce(namespace(ns, "pack_bits_to_element"),
                                         "packing constraint",
                                         PackedLC(booleans)
                                         \o << <<Pow2(bitlength), 0>>,
                                               <<-Pow2(bitlength), sign_bit.variable>> >>,
                                         LcOne, LcVar(v))>>
                               \o AllocatedNum_alloc(namespace(ns, "result"), value)
                               \o <<Enforce(namespace(ns, "result"), "constraint",
                                            << <<1, v>>, <<-base_value(bitlength), 0>> >>,
                                            LcOne, LcVar(v + 1))>>),
                  stack |-> Rest(stack, bitlength)
                            \o <<Reg(new(value, v + 1), IntegerType(TRUE, bitlength))>>]

\* E::Fs::CAPACITY: the embedded curve's scalar field has a modulus of 251 bits.
Fs_CAPACITY == 250

BITLENGTH_BYTE == 8
LIMIT_SCHNORR_MESSAGE_BYTES == 31
LIMIT_SCHNORR_MESSAGE_BITS == LIMIT_SCHNORR_MESSAGE_BYTES * BITLENGTH_BYTE

\* VerifySchnorrSignature::new
VerifySchnorrSignature_new(args_count) ==
    IF args_count < 6
    THEN [err |-> "MalformedBytecode", msg_len |-> 0]
    ELSE [err |-> "none", msg_len |-> args_count - 5]

\* What the signature gadget of the library makes of a signature.
Verdicts == {"valid", "invalid", "SynthesisError"}

\* VerifySchnorrSignature::execute
execute(ctx, msg_len, stack, verdict) ==
    LET bad == BadPops(stack, msg_len + 5, FALSE)
        ns  == ns_name(ctx)
        v   == NextVar(ctx)
        number(i, name) ==
            AllocatedNum_alloc(namespace(ns, name), Pop(stack, msg_len + i).prim.value)
            \o <<Enforce(namespace(ns, name), "constraint",
                         LcVar(Pop(stack, msg_len + i).prim.variable), LcOne,
                         LcVar(v + i - 1))>>
        numbers == number(1, "to_number pk_y") \o number(2, "to_number pk_x")
                   \o number(3, "to_number s") \o number(4, "to_number r_y")
                   \o number(5, "to_number r_x")
        is_valid == Some(Indicator(verdict = "valid"))
    IN  IF msg_len > Fs_CAPACITY
        THEN [ctx |-> Fail(ctx, "MalformedBytecode"), stack |-> stack]
        ELSE IF bad # {}
        THEN [ctx |-> Fail(ctx, "StackUnderflow"), stack |-> <<>>]
        ELSE IF verdict = "SynthesisError"
        THEN [ctx |-> Fail(emit(cs_namespace(ctx), numbers), "SynthesisError"),
              stack |-> Rest(stack, msg_len + 5)]
        ELSE [ctx |-> emit(cs_namespace(ctx),
                           numbers
                           \o AllocatedBit_alloc(namespace(ns, "verify_signature"),
                                                 is_valid, v + 5)),
              stack |-> Rest(stack, msg_len + 5)
                        \o <<Reg(new(is_valid, v + 5), Boolean)>>]

\* The most cells the caller pushes for one call.
MaxArgs == 256

\* The widths of the integers converted.
Widths == 1 .. (CAPACITY - 1)

\* A signed integer put on the empty stack.
Integer(v, ty) ==
    /\ ~Failed(ops)
    /\ regs = <<>>
    /\ res.op = "none"
    /\ \E r \in {variable_bigint(ops, v)} :
           /\ ops' = r.ctx
           /\ regs' = <<Reg(r.out, ty)>>
           /\ res' = Done("variable_bigint", <<>>, <<r.out>>, r.ctx)
    /\ UNCHANGED <<array, conds, loc, pc, steps, twin>>

ToBits ==
    /\ ~Failed(ops)
    /\ Len(regs) = 1
    /\ res.op = "variable_bigint"
    /\ regs[1].ty.signed
    /\ \E r \in {to_bits(ops, regs)} :
           /\ ops' = r.ctx
           /\ regs' = r.stack
           /\ res' = Done("to_bits", <<regs[1]>>, r.stack, r.ctx)
    /\ UNCHANGED <<array, conds, loc, pc, steps, twin>>

\* A Boolean cell of any value put on a stack of Boolean cells.
Cell(b) ==
    /\ ~Failed(ops)
    /\ Len(regs) <= CAPACITY
    /\ res.op \in {"none", "variable_bigint"}
    /\ \A i \in 1 .. Len(regs) : regs[i].ty = Boolean
    /\ \E r \in {variable_bigint(ops, b)} :
           /\ ops' = r.ctx
           /\ regs' = Append(regs, Reg(r.out, Boolean))
           /\ res' = Done("variable_bigint", <<>>, <<r.out>>, r.ctx)
    /\ UNCHANGED <<array, conds, loc, pc, steps, twin>>

FromBitsSigned(inputs_count) ==
    /\ ~Failed(ops)
    /\ res.op \in {"none", "variable_bigint", "to_bits"}
    /\ \E r \in {from_bits_signed(ops, inputs_count, regs)} :
           /\ ops' = r.ctx
           /\ regs' = r.stack
           /\ res' = Done("from_bits_signed", <<inputs_count, regs>>, r.stack, r.ctx)
    /\ UNCHANGED <<array, conds, loc, pc, steps, twin>>

\* An argument of schnorr::verify: the signature and the key first, of the
\* field type, then the bits of the message.
Argument ==
    /\ ~Failed(ops)
    /\ Len(regs) < MaxArgs
    /\ res.op \in {"none", "argument"}
    /\ regs' = Append(regs, Reg(one, IF Len(regs) < 5 THEN Field ELSE Boolean))
    /\ res' = Done("argument", <<>>, <<>>, ops)
    /\ UNCHANGED <<ops, array, conds, loc, pc, steps, twin>>

SchnorrVerify(args_count, verdict) ==
    /\ ~Failed(ops)
    /\ res.op \in {"none", "argument"}
    /\ \E f \in {VerifySchnorrSignature_new(args_count)} :
           \E r \in {IF f.err # "none"
                     THEN [ctx |-> Fail(ops, f.err), stack |-> regs]
                     ELSE execute(ops, f.msg_len, regs, verdict)} :
               /\ ops' = r.ctx
               /\ regs' = r.stack
               /\ res' = Done("schnorr_verify", <<args_count, regs>>, r.stack, r.ctx)
    /\ UNCHANGED <<array, conds, loc, pc, steps, twin>>

NextStd ==
    \/ \E n \in Widths : \E v \in TypeValues(IntegerType(TRUE, n)) :
           Integer(v, IntegerType(TRUE, n))
    \/ ToBits
    \/ \E b \in {0, 1} : Cell(b)
    \/ \E inputs_count \in 0 .. (CAPACITY + 1) : FromBitsSigned(inputs_count)
    \/ Argument
    \/ \E args_count \in {Len(regs), Len(regs) + 1} : \E verdict \in Verdicts :
           SchnorrVerify(args_count, verdict)

SpecStd == Init /\ [][NextStd]_vars

\* The number with the binary digits b[1], b[2], ..., least significant first.
RECURSIVE Weighted(_)
Weighted(b) == IF b = <<>> THEN 0 ELSE b[1] + 2 * Weighted(Tail(b))

\* The values of the n cells a call pops, the first popped first.
PoppedValues(stack, n) == [i \in 1 .. n |-> Unwrap(Pop(stack, i).prim.value)]

(***************************************************************************)
(* C16.  For every signed integer v of width n, 1 <= n < CAPACITY,         *)
(* from_bits_signed applied to the n cells to_bits(v) produced returns v   *)
(* with the type signed integer of bitlength n; for popped bits            *)
(* b_0 .. b_(n-1), b_0 popped first and least significant, the result is   *)
(* the two's-complement value sum(b_i * 2^i) - b_(n-1) * 2^n.              *)
(***************************************************************************)
C16_FromBitsSignedRoundTrip ==
    /\ (res.op = "from_bits_signed" /\ res.prev = "to_bits"
          /\ res.args[1] = Len(res.args[2])) =>
           /\ res.ok
           /\ Satisfied(ops)
           /\ Len(regs) = 1
           /\ Top(0).ty = IntegerType(TRUE, res.args[1])
           /\ IntOf(Top(0).prim) = fr_to_bigint(Unwrap(res.log[1].input))
    /\ (res.op = "from_bits_signed" /\ res.args[1] \in Widths
          /\ BadPops(res.args[2], res.args[1], TRUE) = {}) =>
           LET n == res.args[1]
               b == PoppedValues(res.args[2], n)
           IN  /\ res.ok
               /\ Satisfied(ops)
               /\ Top(0).ty = IntegerType(TRUE, n)
               /\ IntOf(Top(0).prim) = Weighted(b) - b[n] * Pow2(n)

\* The least value of the widest type has gone through to_bits and back.
C16_Witness ==
    /\ res.op = "from_bits_signed"
    /\ res.prev = "to_bits"
    /\ res.ok
    /\ res.args[1] = CAPACITY - 1
    /\ Len(res.args[2]) = CAPACITY - 1
    /\ IntOf(Top(0).prim) = -Pow2(CAPACITY - 2)

(***************************************************************************)
(* C17.  schnorr::verify accepts a message only if its length is at most   *)
(* the capacity of the embedded scalar field capped at 248 bits: every     *)
(* call with more than 248 message bits is rejected with a                 *)
(* MalformedBytecode error, and every call with 1 to 248 message bits      *)
(* passes the length check.                                                *)
(***************************************************************************)
C17_MessageLengthCapped ==
    (res.op = "schnorr_verify" /\ res.args[1] >= 6) =>
        LET msg_len == res.args[1] - 5
        IN  /\ msg_len > LIMIT_SCHNORR_MESSAGE_BITS => ops.err = "MalformedBytecode"
            /\ msg_len \in 1 .. LIMIT_SCHNORR_MESSAGE_BITS => ops.err # "MalformedBytecode"

(***************************************************************************)
(* C18.  A standard-library call given an unsupported argument count       *)
(* fails with a MalformedBytecode error and never panics or proceeds:      *)
(* schnorr::verify with fewer than 6 arguments, and from_bits_signed with  *)
(* an input count outside 1 .. CAPACITY - 1, that is 0 or >= CAPACITY.     *)
(***************************************************************************)
C18_UnsupportedCountRejected ==
    /\ (res.op = "schnorr_verify" /\ res.args[1] < 6) => ops.err = "MalformedBytecode"
    /\ (res.op = "from_bits_signed" /\ res.args[1] \notin Widths) =>
           ops.err = "MalformedBytecode"

(***************************************************************************)
(* The Dbg instruction of the virtual machine.  Its arguments are cells    *)
(* of the evaluation stack, or the fields of a contract, which are read    *)
(* from the storage; the condition stack decides whether it prints.        *)
(***************************************************************************)

\* The argument types: a scalar, an array of two scalars, a contract with
\* a field of one cell and a field of two.
ScalarArgument == [contract |-> FALSE, size |-> 1]
ArrayArgument == [contract |-> FALSE, size |-> 2]
ContractArgument == [contract |-> TRUE, fields |-> <<1, 2>>]

\* The most arguments of one Dbg.
MaxDbgArgs == 2

ArgumentTypes ==
    UNION {[1 .. n -> {ScalarArgument, ArrayArgument, ContractArgument}] : n \in 0 .. MaxDbgArgs}

\* The format strings, as their pieces: text and placeholders.
Formats == {<<>>, <<"{}">>, <<"a = ", "{}", ", b = ", "{}">>}

\* vm.storage_load(index, size): size scalars of the leaf; in the circuit
\* the leaf is hashed, the root is recomputed along the authentication path
\* given as witness, and the recomputed root is constrained to be the declared
\* one.  The hash is one variable here and the path another.
storage_load(ctx, index, size, leaf) ==
    LET ns == namespace(ns_name(ctx), "storage_load " \o ToString(index))
        v  == NextVar(ctx)
    IN  [ctx |-> emit(cs_namespace(ctx),
                      [i \in 1 .. size |->
                          Alloc(ns, "leaf value " \o ToString(i - 1), Some(leaf), "aux")]
                      \o <<Alloc(ns, "leaf hash", Some(0), "aux"),
                           Alloc(ns, "authentication path", Some(0), "aux"),
                           Alloc(ns, "root", Some(0), "aux"),
                           Enforce(ns, "root equality",
                                   LcVar(v + size + 2), LcOne, LcVar(v + size + 2))>>),
         out |-> [i \in 1 .. size |-> new(Some(leaf), v + i - 1)]]

\* The loop over the fields of a contract, from field index on.
RECURSIVE load_fields(_, _, _, _)
load_fields(ctx, fields, index, leaf) ==
    IF index >= Len(fields) THEN [ctx |-> ctx, flat |-> <<>>]
    ELSE Only({Only({[ctx |-> rest.ctx,
                      flat |-> [i \in 1 .. Len(loaded.out) |->
                                   fr_to_bigint(Unwrap(loaded.out[i].value))]
                               \o rest.flat] :
                       rest \in {load_fields(loaded.ctx, fields, index + 1, leaf)}}) :
                 loaded \in {storage_load(ctx, index, fields[index + 1], leaf)}})

\* The cells popped for an argument that is no contract.
pop_cells(ctx, size, stack) ==
    LET bad == BadPops(stack, size, FALSE)
        missing == {i \in 1 .. size : i <= Len(stack) /\ ~IsSome(Pop(stack, i).prim.value)}
        first == IF bad \cup missing = {} THEN size + 1 ELSE MinOf(bad \cup missing)
    IN  [ctx |-> IF first > size THEN ctx
                 ELSE Fail(ctx, IF first \in bad THEN "StackUnderflow"
                                ELSE "AssignmentMissing"),
         stack |-> Rest(stack, IF first > size THEN size ELSE first),
         flat |-> IF first > size
                  THEN [i \in 1 .. size |->
                           fr_to_bigint(Unwrap(Pop(stack, size - i + 1).prim.value))]
                  ELSE <<>>]

\* The loop over the argument types, the last one first.
RECURSIVE collect(_, _, _, _)
collect(ctx, argument_types, stack, leaf) ==
    IF argument_types = <<>> \/ Failed(ctx)
    THEN [ctx |-> ctx, stack |-> stack, values |-> <<>>]
    ELSE LET argument_type == argument_types[Len(argument_types)]
             others == SubSeq(argument_types, 1, Len(argument_types) - 1)
         IN  IF argument_type.contract
             THEN Only({Only({[ctx |-> rest.ctx, stack |-> rest.stack,
                               values |-> <<got.flat>> \o rest.values] :
                                rest \in {collect(got.ctx, others, stack, leaf)}}) :
                          got \in {load_fields(ctx, argument_type.fields, 0, leaf)}})
             ELSE Only({Only({[ctx |-> rest.ctx, stack |-> rest.stack,
                               values |-> <<got.flat>> \o rest.values] :
                                rest \in {collect(got.ctx, others, got.stack, leaf)}}) :
                          got \in {pop_cells(ctx, argument_type.size, stack)}})

\* serde_json::to_string(&value.into_json()): a number, or a list of numbers.
RECURSIVE joined(_)
joined(flat) ==
    IF flat = <<>> THEN ""
    ELSE IF Len(flat) = 1 THEN ToString(flat[1])
    ELSE ToString(flat[1]) \o "," \o joined(Tail(flat))

to_string(flat) == IF Len(flat) = 1 THEN joined(flat) ELSE "[" \o joined(flat) \o "]"

\* buffer.replacen("{}", json, 1)
replacen(buffer, json) ==
    LET at == {i \in 1 .. Len(buffer) : buffer[i] = "{}"}
    IN  IF at = {} THEN buffer ELSE [buffer EXCEPT ![MinOf(at)] = json]

\* The values substituted in the format, the first argument first.
RECURSIVE substituted(_, _)
substituted(buffer, values) ==
    IF values = <<>> THEN buffer
    ELSE substituted(replacen(buffer, to_string(values[1])), Tail(values))

Reverse(s) == [i \in 1 .. Len(s) |-> s[Len(s) - i + 1]]

\* A Dbg that prints whatever the condition is.
printing_always(condition) == TRUE

\* The condition has a value and the value is positive.
printing(condition) ==
    IsSome(condition.value) /\ fr_to_bigint(Unwrap(condition.value)) > 0

\* Dbg::execute: what is left of the stack, the constraint system, and the
\* lines printed.
dbg(ctx, format, argument_types, stack, condition, leaf) ==
    Only({[ctx |-> c.ctx, stack |-> c.stack,
           printed |-> IF ~Failed(c.ctx) /\ printing(condition)
                       THEN <<substituted(format, Reverse(c.values))>> ELSE <<>>] :
            c \in {collect(ctx, argument_types, stack, leaf)}})

\* The guard of an enclosing conditional, on the condition stack.
Guard(c) ==
    /\ ~Failed(ops)
    /\ conds = <<>>
    /\ res.op \in {"none", "variable_bigint"}
    /\ \E r \in {variable_bigint(ops, c)} :
           /\ ops' = r.ctx
           /\ conds' = <<r.out>>
           /\ res' = Done("guard", <<>>, <<r.out>>, r.ctx)
    /\ UNCHANGED <<regs, array, loc, pc, steps, twin>>

\* The record keeps the state the instruction started from.
Dbg(format, argument_types, leaf) ==
    /\ ~Failed(ops)
    /\ res.op # "dbg"
    /\ \E r \in {dbg(ops, format, argument_types, regs, condition_top, leaf)} :
           /\ ops' = r.ctx
           /\ regs' = r.stack
           /\ res' = Done("dbg",
                          [format |-> format, argument_types |-> argument_types,
                           stack |-> regs, conds |-> conds, ops |-> ops, leaf |-> leaf],
                          r.printed, r.ctx)
    /\ UNCHANGED <<array, conds, loc, pc, steps, twin>>

NextDbg ==
    \/ \E b \in {0, 1} : Cell(b)
    \/ \E c \in {0, 1} : Guard(c)
    \/ \E format \in Formats : \E argument_types \in ArgumentTypes :
           \E leaf \in LocalValues : Dbg(format, argument_types, leaf)

SpecDbg == Init /\ [][NextDbg]_vars

\* The condition the instruction ran under, and the opposite one.
DbgCondition == IF res.args.conds = <<>> THEN one ELSE res.args.conds[Len(res.args.conds)]

Opposite(condition) == [condition EXCEPT !.value = Some(1 - Unwrap(@))]

\* The same instruction from the same state under the opposite condition.
DbgOpposite ==
    dbg(res.args.ops, res.args.format, res.args.argument_types, res.args.stack,
        Opposite(DbgCondition), res.args.leaf)

(***************************************************************************)
(* C19.  Dbg prints iff the top of the condition stack is true; whether    *)
(* it prints or not it pops the same argument cells, so the evaluation     *)
(* stack, the condition stack and every other part of the state after      *)
(* Dbg are the same for a true and a false condition.                      *)
(***************************************************************************)
C19_DbgPrintsIffCondition ==
    res.op = "dbg" =>
        /\ res.ok => ((res.outs # <<>>) <=> (DbgCondition.value = Some(1)))
        /\ ~res.ok => res.outs = <<>>
        /\ \E other \in {DbgOpposite} :
               /\ other.stack = regs
               /\ other.ctx = ops
               /\ res.ok => ((other.printed # <<>>) <=> (res.outs = <<>>))
        /\ conds = res.args.conds
        /\ array = <<>> /\ loc = <<>> /\ pc = "idle" /\ twin = NoTwin

\* A Dbg under a false guard has popped an array and a scalar and printed nothing.
C19_Witness ==
    /\ res.op = "dbg"
    /\ res.ok
    /\ conds # <<>>
    /\ DbgCondition.value = Some(0)
    /\ res.args.argument_types = <<ScalarArgument, ArrayArgument>>
    /\ Len(res.args.stack) = Len(regs) + 3
    /\ res.outs = <<>>

(***************************************************************************)
(* C20.  Dbg never emits constraints: for every format string and every    *)
(* list of argument types, Contract-typed arguments whose fields are read  *)
(* through storage_load included, the constraint system (variables and     *)
(* enforced constraints) is the same after Dbg as before.                  *)
(***************************************************************************)
C20_DbgEmitsNothing ==
    res.op = "dbg" =>
        /\ ops.vars = res.args.ops.vars
        /\ ops.cons = res.args.ops.cons

(***************************************************************************)
(* Dbg over cells some of which have no assignment, as the cells of a run  *)
(* that only synthesizes the circuit.                                      *)
(***************************************************************************)

\* A variable allocated on a constraint system that does not evaluate the
\* assignment (the synthesis of the circuit for the keys): the allocation
\* succeeds and the scalar has no value.
variable_unassigned(ctx) ==
    [ctx |-> [cs_namespace(ctx) EXCEPT
                !.vars = Append(@, [name |-> namespace(ns_name(ctx), "variable value"),
                                    val |-> NoneV, kind |-> "aux"])],
     out |-> new(NoneV, NextVar(ctx))]

\* A Boolean cell whose variable has no assignment.
Unassigned ==
    /\ ~Failed(ops)
    /\ Len(regs) < MaxDbgArgs + 1
    /\ res.op \in {"none", "variable_bigint"}
    /\ \E r \in {variable_unassigned(ops)} :
           /\ ops' = r.ctx
           /\ regs' = Append(regs, Reg(r.out, Boolean))
           /\ res' = Done("variable_bigint", <<>>, <<r.out>>, r.ctx)
    /\ UNCHANGED <<array, conds, loc, pc, steps, twin>>

NextDbgRun ==
    \/ \E b \in {0, 1} : Cell(b)
    \/ Unassigned
    \/ \E c \in {0, 1} : Guard(c)
    \/ \E format \in Formats : \E argument_types \in ArgumentTypes :
           \E leaf \in LocalValues : Dbg(format, argument_types, leaf)

SpecDbgRun == Init /\ [][NextDbgRun]_vars

\* The cells the arguments that are no contract take from the stack.
RECURSIVE CellsNeeded(_)
CellsNeeded(argument_types) ==
    IF argument_types = <<>> THEN 0
    ELSE (IF argument_types[1].contract THEN 0 ELSE argument_types[1].size)
         + CellsNeeded(Tail(argument_types))

\* The placeholders of a format.
Placeholders(format) == Cardinality({i \in 1 .. Len(format) : format[i] = "{}"})

(***************************************************************************)
(* C21.  Executing Dbg never aborts the run: with the cells of its         *)
(* arguments on the stack, whatever the number of placeholders of the      *)
(* format and whether or not the argument cells have an assignment, Dbg    *)
(* returns Ok.                                                             *)
(***************************************************************************)
C21_DbgNeverAborts ==
    (res.op = "dbg" /\ CellsNeeded(res.args.argument_types) <= Len(res.args.stack))
        => res.ok

\* The part that holds: a Dbg whose argument cells all have an assignment
\* returns Ok, whatever the placeholders of its format.
C21_MismatchIsNoError ==
    (/\ res.op = "dbg"
     /\ CellsNeeded(res.args.argument_types) <= Len(res.args.stack)
     /\ \A i \in 1 .. CellsNeeded(res.args.argument_types) :
            IsSome(Pop(res.args.stack, i).prim.value))
        => res.ok

\* One placeholder and no argument: Ok, and the placeholder is printed as it is.
C21_MismatchReached ==
    /\ res.op = "dbg"
    /\ res.ok
    /\ Placeholders(res.args.format) = 1
    /\ res.args.argument_types = <<>>
    /\ res.outs = <<res.args.format>>

(***************************************************************************)
(* std::collections::MTreeMap::contains of the virtual machine.  The       *)
(* storage of the contract is the variable array: none for a run that is   *)
(* no contract, else the sequence of its leaves.                           *)
(***************************************************************************)

\* The longest key.
MaxKey == 2

\* LeafVariant::Map { data } and LeafVariant::Array.
MapLeaf(data) == [map |-> TRUE, data |-> data]
ArrayLeaf(values) == [map |-> FALSE, data |-> values]

\* The leaves of the storages: maps of (key, value) entries, and an array.
Leaves ==
    <<MapLeaf(<<>>),
      MapLeaf(<<<<<<1>>, <<2>>>>>>),
      MapLeaf(<<<<<<0, 1>>, <<2>>>>>>),
      MapLeaf(<<<<<<1, 1>>, <<2>>>>, <<<<1, 0>>, <<3>>>>>>),
      ArrayLeaf(<<0, 1>>)>>

\* The storages, of one leaf or two, by the numbers of their leaves.
Storages == UNION {[1 .. n -> 1 .. Len(Leaves)] : n \in 1 .. 2}

\* Scalar::new_constant_bool
new_constant_bool(b) ==
    [prim |-> [value |-> Some(IF b THEN 1 ELSE 0), constant |-> TRUE], ty |-> Boolean]

\* storage.load(index): the leaf at the index.
load(leaves, index) ==
    IF index \in 0 .. (Len(leaves) - 1) THEN Some(leaves[index + 1]) ELSE NoneV

\* A contains that compares the key in the order of the pops.
unreversed(input) == input

\* input.reverse()
reversed(input) == Reverse(input)

\* Contains::call: the error if any, the evaluation stack and the storage.
contains(ctx, input_size, stack, storage) ==
    IF ~IsSome(storage)
    THEN [ctx |-> Fail(ctx, "OnlyForContracts"), stack |-> stack, storage |-> storage]
    ELSE LET bad == BadPops(stack, input_size + 1, FALSE)
             input == reversed([i \in 1 .. input_size |-> Pop(stack, i).prim.value])
             cell == Pop(stack, input_size + 1).prim.value
             index == IF IsSome(cell) THEN fr_to_bigint(Unwrap(cell)) ELSE 0
             leaf == load(Unwrap(storage), index)
             data == Unwrap(leaf).data
             found == \E e \in 1 .. Len(data) : [j \in 1 .. Len(data[e][1]) |-> Some(data[e][1][j])] = input
             rest == Rest(stack, input_size + 1)
         IN  IF bad # {}
             THEN [ctx |-> Fail(ctx, "StackUnderflow"), stack |-> <<>>, storage |-> storage]
             ELSE IF ~IsSome(leaf)
             THEN [ctx |-> Fail(ctx, "StorageLoad"), stack |-> rest, storage |-> storage]
             ELSE IF ~Unwrap(leaf).map
             THEN [ctx |-> Fail(ctx, "InvalidStorageValue"), stack |-> rest,
                   storage |-> storage]
             ELSE [ctx |-> ctx, stack |-> Append(rest, new_constant_bool(found)),
                   storage |-> storage]

\* The run is the run of a contract with these leaves.
Deploy(leaves) ==
    /\ array = NoneV
    /\ res.op = "none"
    /\ array' = Some([i \in 1 .. Len(leaves) |-> Leaves[leaves[i]]])
    /\ UNCHANGED <<ops, regs, res, conds, loc, pc, steps, twin>>

\* The record keeps the state the call started from.
Contains(input_size) ==
    /\ ~Failed(ops)
    /\ res.op # "contains"
    /\ \E r \in {contains(ops, input_size, regs, array)} :
           /\ ops' = r.ctx
           /\ regs' = r.stack
           /\ array' = r.storage
           /\ res' = Done("contains",
                          [input_size |-> input_size, stack |-> regs, storage |-> array],
                          IF Failed(r.ctx) THEN <<>> ELSE <<Pop(r.stack, 1)>>, r.ctx)
    /\ UNCHANGED <<conds, loc, pc, steps, twin>>

NextMap ==
    \/ \E leaves \in Storages : Deploy(leaves)
    \/ \E b \in {0, 1} : Cell(b)
    \/ \E input_size \in 0 .. MaxKey : Contains(input_size)

SpecMap == Init /\ [][NextMap]_vars

\* The key on the stack, in the order its cells were pushed, is a key of the leaf.
KeyPresent(stack, input_size, leaf) ==
    \E e \in 1 .. Len(leaf.data) :
        /\ Len(leaf.data[e][1]) = input_size
        /\ \A j \in 1 .. input_size :
               stack[Len(stack) - input_size + j].prim.value = Some(leaf.data[e][1][j])

\* The leaf the index cell under the key names.
LeafAt(stack, input_size, storage) ==
    Unwrap(storage)[fr_to_bigint(Unwrap(stack[Len(stack) - input_size].prim.value)) + 1]

\* The call had its cells on the stack and the index of a leaf under the key.
ContainsCase ==
    /\ res.op = "contains"
    /\ IsSome(res.args.storage)
    /\ Len(res.args.stack) > res.args.input_size
    /\ fr_to_bigint(Unwrap(res.args.stack[Len(res.args.stack) - res.args.input_size].prim.value))
           \in 0 .. (Len(Unwrap(res.args.storage)) - 1)

(***************************************************************************)
(* C22.  MTreeMap::contains replaces the input_size key cells and the      *)
(* index cell below them by exactly one Boolean cell, true iff some entry  *)
(* of the map leaf at the index has a key equal element by element, in     *)
(* push order, to the popped key; the storage is unchanged; without        *)
(* storage it fails with OnlyForContracts, on an array leaf with           *)
(* InvalidStorageValue.                                                    *)
(***************************************************************************)
C22_ContainsScansKeys ==
    res.op = "contains" =>
        /\ array = res.args.storage
        /\ ~IsSome(res.args.storage) => ops.err = "OnlyForContracts"
        /\ ContainsCase =>
               \E leaf \in {LeafAt(res.args.stack, res.args.input_size, res.args.storage)} :
                   /\ ~leaf.map => ops.err = "InvalidStorageValue"
                   /\ leaf.map =>
                          /\ res.ok
                          /\ Len(regs) = Len(res.args.stack) - res.args.input_size
                          /\ SubSeq(regs, 1, Len(regs) - 1)
                                 = SubSeq(res.args.stack, 1, Len(regs) - 1)
                          /\ regs[Len(regs)].ty = Boolean
                          /\ regs[Len(regs)].prim.value
                                 = Some(IF KeyPresent(res.args.stack, res.args.input_size, leaf)
                                        THEN 1 ELSE 0)

\* A key of two cells pushed as 1 then 0 was found in the second leaf, whose
\* keys are (1, 1) and (1, 0), with a cell left under the index.
C22_Witness ==
    /\ res.op = "contains"
    /\ res.ok
    /\ res.args.input_size = 2
    /\ Len(regs) = 2
    /\ ContainsCase
    /\ LeafAt(res.args.stack, 2, res.args.storage)
           = MapLeaf(<<<<<<1, 1>>, <<2>>>>, <<<<1, 0>>, <<3>>>>>>)
    /\ res.args.stack[Len(res.args.stack)].prim.value = Some(0)
    /\ res.args.stack[Len(res.args.stack) - 1].prim.value = Some(1)
    /\ regs[2].prim.value = Some(1)

(***************************************************************************)
(* schnorr::verify on a stack of cells that differ, so that the order in   *)
(* which the cells are taken shows in the verdict.                         *)
(***************************************************************************)

\* The most cells of the evaluation stack.
MaxCells == 8

\* A cell with a witness value: a bit for 0 and 1, else a field element.
Push(v) ==
    /\ ~Failed(ops)
    /\ Len(regs) < MaxCells
    /\ res.op \in {"none", "variable_bigint"}
    /\ \E r \in {variable_bigint(ops, v)} :
           /\ ops' = r.ctx
           /\ regs' = Append(regs, Reg(r.out, IF v \in {0, 1} THEN Boolean ELSE Field))
           /\ res' = Done("variable_bigint", <<>>, <<r.out>>, r.ctx)
    /\ UNCHANGED <<array, conds, loc, pc, steps, twin>>

\* A schnorr::verify that reverses the message it popped.
arguments_reversed(stack, msg_len) ==
    [message |-> [i \in 1 .. msg_len |-> Unwrap(Pop(stack, msg_len - i + 1).prim.value)],
     pk_y |-> Unwrap(Pop(stack, msg_len + 1).prim.value),
     pk_x |-> Unwrap(Pop(stack, msg_len + 2).prim.value),
     s    |-> Unwrap(Pop(stack, msg_len + 3).prim.value),
     r_y  |-> Unwrap(Pop(stack, msg_len + 4).prim.value),
     r_x  |-> Unwrap(Pop(stack, msg_len + 5).prim.value)]

\* The pops of execute: the message, bit by bit, then pk_y, pk_x, s, r_y, r_x.
arguments(stack, msg_len) ==
    [message |-> [i \in 1 .. msg_len |-> Unwrap(Pop(stack, i).prim.value)],
     pk_y |-> Unwrap(Pop(stack, msg_len + 1).prim.value),
     pk_x |-> Unwrap(Pop(stack, msg_len + 2).prim.value),
     s    |-> Unwrap(Pop(stack, msg_len + 3).prim.value),
     r_y  |-> Unwrap(Pop(stack, msg_len + 4).prim.value),
     r_x  |-> Unwrap(Pop(stack, msg_len + 5).prim.value)]

\* The sum of a message whose bits have the weights 1, 2, 3, ...
RECURSIVE Digest(_)
Digest(message) ==
    IF message = <<>> THEN 0
    ELSE Len(message) * message[Len(message)]
         + Digest(SubSeq(message, 1, Len(message) - 1))

\* A signature scheme in place of EdDSA: a relation between the message,
\* the point r, the scalar s and the key pk in which no two of them can be
\* exchanged.
is_verified_raw_message_signature(message, r_x, r_y, s, pk_x, pk_y) ==
    (r_x + 2 * r_y + 3 * pk_x + 4 * pk_y + 5 * Digest(message)) % 3 = s

\* verify_signature on what execute popped.
verify_signature(popped) ==
    IF is_verified_raw_message_signature(popped.message, popped.r_x, popped.r_y,
                                         popped.s, popped.pk_x, popped.pk_y)
    THEN "valid" ELSE "invalid"

\* The record keeps the stack the call started from.
Verify(args_count) ==
    /\ ~Failed(ops)
    /\ res.op \in {"none", "variable_bigint"}
    /\ \E f \in {VerifySchnorrSignature_new(args_count)} :
           \E r \in {IF f.err # "none"
                     THEN [ctx |-> Fail(ops, f.err), stack |-> regs]
                     ELSE execute(ops, f.msg_len, regs,
                                  IF Len(regs) >= f.msg_len + 5
                                  THEN verify_signature(arguments(regs, f.msg_len))
                                  ELSE "SynthesisError")} :
               /\ ops' = r.ctx
               /\ regs' = r.stack
               /\ res' = Done("verify", [args_count |-> args_count, stack |-> regs],
                              r.stack, r.ctx)
    /\ UNCHANGED <<array, conds, loc, pc, steps, twin>>

NextSchnorr ==
    \/ \E v \in 0 .. 2 : Push(v)
    \/ \E args_count \in (5 .. (MaxCells + 1)) \cup {Fs_CAPACITY + 6} : Verify(args_count)

SpecSchnorr == Init /\ [][NextSchnorr]_vars

\* The value of the cell i places under the top of the stack of the call.
Under(i) == Unwrap(res.args.stack[Len(res.args.stack) - i].prim.value)

C23_LengthCheckReached ==
    /\ res.op = "verify"
    /\ res.args.args_count = Fs_CAPACITY + 6
    /\ Len(regs) = 3

(***************************************************************************)
(* The decoder of the bytecode.  The input bytes are the variable array;   *)
(* res holds the offset and the instructions of decode_all_instructions,   *)
(* and pc its position: before the loop, in it, or returned.               *)
(***************************************************************************)

\* The variants of InstructionCode, in the order of their declaration; the
\* code of a variant is its place in the enumeration, from 0.
InstructionCode ==
    <<"NoOperation", "Pop", "Push", "Copy", "Add", "Sub", "Mul", "Div", "Rem", "Neg",
      "Not", "And", "Or", "Xor", "Lt", "Le", "Eq", "Ne", "Ge", "Gt", "Cast",
      "ConditionalSelect", "LoopBegin", "LoopEnd", "Call", "Return", "Assert",
      "PushCondition", "PopCondition", "Exit">>

as_u8(variant) == (CHOOSE i \in 1 .. Len(InstructionCode) : InstructionCode[i] = variant) - 1

\* The variants that have an arm in the match of decode_instruction.
Arms ==
    {"NoOperation", "Push", "Pop", "Copy", "Add", "Sub", "Mul", "Div", "Rem", "Neg",
     "Not", "And", "Or", "Xor", "Lt", "Le", "Eq", "Ne", "Ge", "Gt", "Cast",
     "ConditionalSelect", "LoopBegin", "LoopEnd", "Call", "Return", "Assert"}

\* The longest input, and the longest constant of a Push, in bytes.
MaxBytes == 5
MaxConstant == 2

\* The bytes of the inputs: NoOperation, Push, PushCondition, and a byte
\* that is no code and that continues a variable-length quantity.
ByteValues == {0, 2, 27, 128}

Ok(value) == [ok |-> TRUE, value |-> value]
Err(error) == [ok |-> FALSE, error |-> error]

\* vlq::decode: the bytes up to the first one without the continuation bit.
vlq_decode(bytes) ==
    LET last == {i \in 1 .. Len(bytes) : bytes[i] < 128}
    IN  IF last = {} THEN
            IF Len(bytes) >= MaxConstant THEN Err(<<"ConstantTooLong">>) ELSE Err(<<"UnexpectedEOF">>)
        ELSE IF MinOf(last) > MaxConstant THEN Err(<<"ConstantTooLong">>)
        ELSE Ok(SubSeq(bytes, 1, MinOf(last)))

\* X::decode(bytes) of the instruction X: Push has a constant after its
\* code, the instructions of the inputs here have nothing.
decode(variant, bytes) ==
    IF variant = "Push"
    THEN Only({IF constant.ok
               THEN Ok([instr |-> [code |-> variant, payload |-> constant.value],
                        len |-> 1 + Len(constant.value)])
               ELSE constant : constant \in {vlq_decode(Tail(bytes))}})
    ELSE Ok([instr |-> [code |-> variant, payload |-> <<>>], len |-> 1])

\* Instruction::encode
encode(instr) == <<as_u8(instr.code)>> \o instr.payload

decode_instruction(bytes) ==
    IF Len(bytes) < 1 THEN Err(<<"UnexpectedEOF">>)
    ELSE IF \E variant \in Arms : bytes[1] = as_u8(variant)
    THEN decode(CHOOSE variant \in Arms : bytes[1] = as_u8(variant), bytes)
    ELSE Err(<<"UnknownInstructionCode", bytes[1]>>)

\* A loop that takes every byte for an instruction.
advance_one(offset, len) == offset + 1

\* offset += len
advance(offset, len) == offset + len

\* One more byte of the input.
Byte(b) ==
    /\ pc = "idle"
    /\ res.op = "none"
    /\ Len(array) < MaxBytes
    /\ array' = Append(array, b)
    /\ UNCHANGED <<ops, regs, res, conds, loc, pc, steps, twin>>

\* decode_all_instructions, up to its loop.
DecodeAll ==
    /\ pc = "idle"
    /\ res.op = "none"
    /\ pc' = "loop"
    /\ res' = [op |-> "decode_all_instructions", instructions |-> <<>>, offset |-> 0,
               log |-> res.log]
    /\ UNCHANGED <<ops, regs, array, conds, loc, steps, twin>>

\* One test of the loop condition, and one turn of the loop or the return.
Iterate ==
    /\ pc = "loop"
    /\ IF res.offset < Len(array)
       THEN \E r \in {decode_instruction(SubSeq(array, res.offset + 1, Len(array)))} :
                IF r.ok
                THEN /\ res' = [res EXCEPT !.instructions = Append(@, r.value.instr),
                                           !.offset = advance(@, r.value.len)]
                     /\ pc' = "loop"
                     /\ regs' = regs
                ELSE /\ regs' = <<r>>
                     /\ pc' = "returned"
                     /\ res' = res
       ELSE /\ regs' = <<Ok(res.instructions)>>
            /\ pc' = "returned"
            /\ res' = res
    /\ UNCHANGED <<ops, array, conds, loc, steps, twin>>

NextDecode ==
    \/ \E b \in ByteValues : Byte(b)
    \/ DecodeAll
    \/ Iterate

SpecDecode == Init /\ [][NextDecode]_vars

\* The loop is not suspended for ever.
FairSpecDecode == SpecDecode /\ WF_vars(Iterate)

\* The bytes of a list of instructions.
RECURSIVE Encoded(_)
Encoded(instructions) ==
    IF instructions = <<>> THEN <<>>
    ELSE encode(instructions[1]) \o Encoded(Tail(instructions))

\* The value decode_all_instructions returned.
Returned == regs[1]

\* The loop has decoded the bytes before the offset, in their order.
DecodedInOrder ==
    pc \in {"loop", "returned"} =>
        /\ res.offset \in 0 .. Len(array)
        /\ Encoded(res.instructions) = SubSeq(array, 1, res.offset)

\* What was returned: every instruction, or the error of the first
\* instruction that does not decode and nothing else.
AllOrNothing ==
    pc = "returned" =>
        /\ Returned.ok =>
               /\ Returned.value = res.instructions
               /\ Encoded(Returned.value) = array
        /\ ~Returned.ok =>
               /\ DOMAIN Returned = {"ok", "error"}
               /\ res.offset < Len(array)
               /\ Returned = decode_instruction(SubSeq(array, res.offset + 1, Len(array)))
               /\ (\A variant \in 1 .. Len(InstructionCode) :
                       array[res.offset + 1] # variant - 1)
                      => Returned.error = <<"UnknownInstructionCode", array[res.offset + 1]>>

\* A turn of the loop returns or moves the offset forward.
Progress == pc = "loop" => (pc' = "returned" \/ res'.offset > res.offset)

(***************************************************************************)
(* C24.  decode_all_instructions is all-or-nothing and order-preserving:   *)
(* on success it returns every instruction of the input in byte order,     *)
(* the decoded lengths summing to the input length; otherwise it stops at  *)
(* the first instruction that fails to decode and returns only that        *)
(* error, UnknownInstructionCode(b) when the byte b is not a known code;   *)
(* it terminates on every finite input.                                    *)
(***************************************************************************)
C24_DecodeAllOrNothing ==
    /\ [](DecodedInOrder /\ AllOrNothing)
    /\ [][Progress]_vars
    /\ (pc = "loop") ~> (pc = "returned")

\* Three instructions were returned for five bytes: a Push of a constant of
\* two bytes between two NoOperation.
C24_Witness ==
    /\ pc = "returned"
    /\ Returned.ok
    /\ array = <<0, 2, 128, 0, 0>>
    /\ Len(Returned.value) = 3
    /\ Returned.value[2] = [code |-> "Push", payload |-> <<128, 0>>]

\* An error after two decoded instructions.
C24_ErrorReached ==
    /\ pc = "returned"
    /\ ~Returned.ok
    /\ Len(res.instructions) = 2
    /\ Returned.error = <<"UnknownInstructionCode", 128>>

\* Instructions whose encodings are among the inputs: one without payload
\* for every variant but Push, and Push with constants of one and two bytes.
Instructions ==
    {[code |-> InstructionCode[i], payload |-> <<>>] :
        i \in {k \in 1 .. Len(InstructionCode) : InstructionCode[k] # "Push"}}
    \cup {[code |-> "Push", payload |-> p] : p \in {<<0>>, <<27>>, <<128, 2>>}}

(***************************************************************************)
(* C25.  Every opcode defined in InstructionCode, PushCondition,           *)
(* PopCondition and Exit included, is decodable: for every instruction i,  *)
(* decode_instruction(encode(i)) succeeds and returns i with the length    *)
(* of its encoding, and UnknownInstructionCode is returned only for bytes  *)
(* that are the code of no variant.                                        *)
(***************************************************************************)
C25_EveryCodeDecodable ==
    (pc = "returned" /\ array # <<>>) =>
        \E r \in {decode_instruction(array)} :
            /\ \A i \in Instructions :
                   array = encode(i) => r = Ok([instr |-> i, len |-> Len(array)])
            /\ (~r.ok /\ r.error[1] = "UnknownInstructionCode") =>
                   \A k \in 1 .. Len(InstructionCode) : r.error[2] # k - 1

\* The part that holds: the instructions that have an arm in the match are
\* decoded to themselves.
C25_ArmsRoundTrip ==
    (pc = "returned" /\ array # <<>>) =>
        \A i \in Instructions :
            (array = encode(i) /\ i.code \in Arms) =>
                /\ decode_instruction(array) = Ok([instr |-> i, len |-> Len(array)])
                /\ Returned = Ok(<<i>>)

\* A Push with a constant of two bytes was decoded to itself.
C25_PushReached ==
    /\ pc = "returned"
    /\ array = <<2, 128, 2>>
    /\ Returned = Ok(<<[code |-> "Push", payload |-> <<128, 2>>]>>)

(***************************************************************************)
(* eq with a prover that chooses the values of the variables eq allocates. *)
(***************************************************************************)

\* The values the prover gives to l_num and r_num.
Claimed == {0, 1, 2}

\* eq with the values l and r assigned to l_num and r_num in place of the
\* values of the operands; the witnesses of equals are computed from them.
eq_w(ctx, left, right, l, r) ==
    LET ns == ns_name(ctx)
        v  == NextVar(ctx)
        l_num == [value |-> l, variable |-> v]
        r_num == [value |-> r, variable |-> v + 1]
    IN  [ctx |-> emit(cs_namespace(ctx),
                      AllocatedNum_alloc(namespace(ns, "l_num"), l)
                      \o AllocatedNum_alloc(namespace(ns, "r_num"), r)
                      \o AllocatedNum_equals(ns, l_num, r_num, v + 2)),
         out |-> new(equals_value(l_num, r_num), v + 2)]

\* eq on two elements of the field.
EqOp ==
    /\ ~Failed(ops)
    /\ Len(regs) = 2
    /\ res.op = "variable_bigint"
    /\ \E r \in {eq(ops, Top(1).prim, Top(0).prim)} : Comparison("eq", r)

EqW(l, r) ==
    /\ ~Failed(ops)
    /\ Len(regs) = 2
    /\ res.op = "variable_bigint"
    /\ \E e \in {eq_w(ops, Top(1).prim, Top(0).prim, Some(l), Some(r))} :
           Comparison("eq_w", e)

NextEqForge ==
    \/ \E v \in Forged : FieldElement(v)
    \/ EqOp
    \/ \E l \in Claimed : \E r \in Claimed : EqW(l, r)

SpecEqForge == Init /\ [][NextEqForge]_vars

(***************************************************************************)
(* C26.  eq(left, right) returns 1 if the operand values are equal and 0   *)
(* otherwise, and its constraints bind the result to the operands'         *)
(* variables: no assignment that satisfies the constraints it emits has    *)
(* result 1 while left # right, or result 0 while left = right.            *)
(***************************************************************************)
C26_EqBindsOperands ==
    (res.op \in {"eq", "eq_w"} /\ res.ok /\ OpSatisfied) =>
        (res.outs[1].value = Some(1)
             <=> res.args[1].prim.value = res.args[2].prim.value)

\* The part that holds: the value eq computes is 1 for equal operands and 0
\* for others, and its own assignment satisfies its constraints.
C26_EqValue ==
    res.op = "eq" =>
        /\ res.ok /\ OpSatisfied
        /\ res.outs[1].value
               = Some(Indicator(res.args[1].prim.value = res.args[2].prim.value))

C26_EqValueReached ==
    /\ res.op = "eq"
    /\ res.args[1].prim.value # res.args[2].prim.value
    /\ res.outs[1].value = Some(0)

(***************************************************************************)
(* The offset of type_check for the signed types, at the widths of the     *)
(* language.  The literal 1 of `1 << (length - 1)` has the default integer *)
(* type, i32; its values are written by sign and exponent.                 *)
(***************************************************************************)

\* The width of i32, and the maximum width of an integer type.
I32_BITS == 32
BITLENGTH_MAX_INT == 248

\* The builds: with overflow checks (debug) and without (release).
Builds == {"debug", "release"}

\* 1 << amount in i32: the bit pattern with bit amount set, which is the
\* minimum of i32 when that is the sign bit; an amount of the width or more
\* panics with overflow checks and is taken modulo the width without.
shl(amount, build) ==
    IF amount >= I32_BITS /\ build = "debug" THEN NoneV
    ELSE Some([negative |-> amount % I32_BITS = I32_BITS - 1, log2 |-> amount % I32_BITS])

\* let offset_value = 1 << (data_type.length - 1)
offset_value(length, build) == shl(length - 1, build)

\* type_check of a value of a signed type of this width, up to its offset.
Offset(length, build) ==
    /\ res.op = "none"
    /\ res' = [op |-> "offset_value", args |-> <<length, build>>,
               outs |-> offset_value(length, build), log |-> res.log]
    /\ UNCHANGED <<ops, regs, array, conds, loc, pc, steps, twin>>

NextOffset == \E length \in 1 .. BITLENGTH_MAX_INT : \E build \in Builds : Offset(length, build)

SpecOffset == Init /\ [][NextOffset]_vars

C27_OffsetBelowWidth ==
    (res.op = "offset_value" /\ res.args[1] < I32_BITS) =>
        res.outs = Some([negative |-> FALSE, log2 |-> res.args[1] - 1])

C27_OffsetReached ==
    /\ res.op = "offset_value"
    /\ res.args[1] = I32_BITS - 1
    /\ res.outs = Some([negative |-> FALSE, log2 |-> I32_BITS - 2])

(***************************************************************************)
(* recursive_select level by level.  loc is the vector of the call in      *)
(* progress and conds the index bits it was given; pc is "select" between  *)
(* the calls, "selected" after the return and "panicked" after the panic.  *)
(***************************************************************************)

\* bits(index, array.len()), then the outermost call of recursive_select.
SelectBits ==
    /\ ~Failed(ops)
    /\ pc = "idle"
    /\ array # <<>>
    /\ Len(regs) = 1
    /\ \E b \in {bits(ops, regs[1].prim, Len(array))} :
           /\ ops' = b.ctx
           /\ loc' = array
           /\ conds' = b.out
           /\ res' = Done("bits", [ops |-> ops], b.out, b.ctx)
    /\ pc' = "select"
    /\ UNCHANGED <<twin, regs, array, steps>>

\* One call of recursive_select, up to its return or its recursive call.
SelectLevel ==
    /\ ~Failed(ops)
    /\ pc = "select"
    /\ IF Len(loc) = 1
       THEN /\ pc' = "selected"
            /\ res' = Done("recursive_select", res.args, <<loc[1]>>, ops)
            /\ UNCHANGED <<ops, loc, conds>>
       ELSE IF conds = <<>>
       THEN /\ pc' = "panicked"
            /\ ops' = Fail(ops, "panic")
            /\ UNCHANGED <<res, loc, conds>>
       ELSE \E level \in {select_pairs(ops, loc, conds[1], 0)} :
                /\ ops' = level.ctx
                /\ loc' = IF Len(loc) % 2 = 1
                          THEN Append(level.out, loc[Len(loc)]) ELSE level.out
                /\ conds' = Tail(conds)
                /\ pc' = "select"
                /\ res' = res
    /\ UNCHANGED <<twin, regs, array, steps>>

NextSelect ==
    \/ \E v \in ElementValues : Element(v)
    \/ \E i \in 0 .. MaxLen : Index(i)
    \/ SelectBits
    \/ SelectLevel

SpecSelect == Init /\ [][NextSelect]_vars

\* A call in progress is not suspended for ever.
FairSpecSelect == SpecSelect /\ WF_vars(SelectLevel)

\* The levels left for a vector of this length.
RECURSIVE Levels(_)
Levels(len) == IF len <= 1 THEN 0 ELSE 1 + Levels((len + 1) \div 2)

\* The index bits are enough for the levels left, and nothing has panicked.
BitsSuffice ==
    /\ pc # "panicked"
    /\ pc = "select" => (Len(loc) >= 1 /\ Len(conds) >= Levels(Len(loc)))
    /\ (pc = "select" /\ Len(loc) > 1) => conds # <<>>

\* The returned element and constraint system are those of array_get.
SelectedAsArrayGet ==
    pc = "selected" =>
        [ctx |-> ops, out |-> res.outs[1]] = array_get(res.args.ops, array, regs[1].prim)

\* A level halves the vector, rounding up, and takes one index bit.
Halves ==
    (pc = "select" /\ pc' = "select") =>
        /\ Len(loc) > 1
        /\ Len(loc') = (Len(loc) + 1) \div 2
        /\ conds' = Tail(conds)

(***************************************************************************)
(* C28.  recursive_select terminates for every array of length n >= 1      *)
(* with the index bits of bits(index, n): the vector goes from len to      *)
(* ceil(len / 2) at each level, one index bit is consumed per level, and   *)
(* the bits are never exhausted before the vector has length 1 (the        *)
(* 'recursion error' panic is unreachable).                                *)
(***************************************************************************)
C28_RecursiveSelectTerminates ==
    /\ [](BitsSuffice /\ SelectedAsArrayGet)
    /\ [][Halves]_vars
    /\ (pc = "select") ~> (pc = "selected")

\* An array of five elements was reduced in three levels, every bit used.
C28_Witness ==
    /\ pc = "selected"
    /\ Len(array) = 5
    /\ Len(res.log) = 8
    /\ conds = <<>>
    /\ Len(loc) = 1
    /\ IntOf(regs[1].prim) = 4
    /\ array[5].value = Some(1)
    /\ \A j \in 1 .. 4 : array[j].value = Some(0)
    /\ res.outs[1].value = Some(1)

(***************************************************************************)
(* The witnesses parser.  pc is the State of the parser, array the tokens  *)
(* it has taken from the stream, regs the token the stream has peeked and  *)
(* not yet given out, conds the builder and loc the witnesses.  The stream *)
(* is any finite stream: every token is drawn when it is first read.       *)
(***************************************************************************)

\* The longest stream.
MaxTokens == 11

Identifiers == {"a", "b"}
TypeKeywords == {"u8", "bool"}

\* What the stream yields: a token, a lexical error ("?") or its end.
Yields ==
    {"witness", "{", "}", ":", ";", "=", "?", "end"} \cup Identifiers \cup TypeKeywords

\* The stream yields t now: the peeked token if there is one, and only its
\* end when it is exhausted.
Drawn(t) ==
    IF regs # <<>> THEN t = regs[1] ELSE (Len(array) >= MaxTokens => t = "end")

\* stream.next()
Taken(t) ==
    /\ Drawn(t)
    /\ array' = IF t = "end" THEN array ELSE Append(array, t)
    /\ regs' = <<>>

Return(result) ==
    /\ pc' = "returned"
    /\ res' = [op |-> "parse", result |-> result, log |-> res.log]

\* The three last arms of every match on stream.next().
Unexpected(t, expected) ==
    Return(IF t = "end" THEN Err(<<"UnexpectedEnd">>)
           ELSE IF t = "?" THEN Err(<<"Lexical">>)
           ELSE Err(<<"Expected", expected, t>>))

\* TypeParser::parse, for the types of one keyword.
TypeParser_parse(t) == IF t \in TypeKeywords THEN Ok(t) ELSE Err(<<"{type}">>)

\* WitnessBuilder: the identifier and the type set so far.
set_identifier(builder, identifier) ==
    IF builder = <<>> THEN <<identifier>> ELSE [builder EXCEPT ![1] = identifier]

set_type(builder, type) == <<builder[1], type>>

\* A parser that puts the new witness first.
push_front(witnesses, witness) == <<witness>> \o witnesses

\* self.witnesses.push(self.builder.build())
push(witnesses, witness) == Append(witnesses, witness)

\* Parser::parse, up to the loop: the peek.
Parse(t) ==
    /\ pc = "idle"
    /\ res.op = "none"
    /\ regs = <<>>
    /\ regs' = <<t>>
    /\ IF t = "witness"
       THEN pc' = "Keyword" /\ res' = res
       ELSE Return(Ok(loc))
    /\ UNCHANGED <<ops, array, conds, loc, steps, twin>>

Keyword(t) ==
    /\ pc = "Keyword"
    /\ Taken(t)
    /\ IF t = "witness"
       THEN pc' = "BracketOpen" /\ res' = res
       ELSE Unexpected(t, <<"witness">>)
    /\ UNCHANGED <<ops, conds, loc, steps, twin>>

BracketOpen(t) ==
    /\ pc = "BracketOpen"
    /\ Taken(t)
    /\ IF t = "{"
       THEN pc' = "ElementIdentifierOrBracketClose" /\ res' = res
       ELSE Unexpected(t, <<"{">>)
    /\ UNCHANGED <<ops, conds, loc, steps, twin>>

ElementIdentifierOrBracketClose(t) ==
    /\ pc = "ElementIdentifierOrBracketClose"
    /\ Taken(t)
    /\ IF t = "}"
       THEN pc' = "End" /\ res' = res /\ conds' = conds
       ELSE IF t \in Identifiers
       THEN pc' = "ElementColon" /\ res' = res /\ conds' = set_identifier(conds, t)
       ELSE Unexpected(t, <<"{identifier}", "}">>) /\ conds' = conds
    /\ UNCHANGED <<ops, loc, steps, twin>>

ElementColon(t) ==
    /\ pc = "ElementColon"
    /\ Taken(t)
    /\ IF t = ":"
       THEN pc' = "ElementType" /\ res' = res
       ELSE Unexpected(t, <<":">>)
    /\ UNCHANGED <<ops, conds, loc, steps, twin>>

ElementType(t) ==
    /\ pc = "ElementType"
    /\ Taken(t)
    /\ \E type \in {TypeParser_parse(t)} :
           IF type.ok
           THEN pc' = "ElementSemicolon" /\ res' = res
                /\ conds' = set_type(conds, type.value)
           ELSE Unexpected(t, type.error) /\ conds' = conds
    /\ UNCHANGED <<ops, loc, steps, twin>>

ElementSemicolon(t) ==
    /\ pc = "ElementSemicolon"
    /\ Taken(t)
    /\ IF t = ";"
       THEN pc' = "ElementIdentifierOrBracketClose" /\ res' = res
            /\ loc' = push(loc, conds)
       ELSE Unexpected(t, <<";">>) /\ loc' = loc
    /\ UNCHANGED <<ops, conds, steps, twin>>

End ==
    /\ pc = "End"
    /\ Return(Ok(loc))
    /\ UNCHANGED <<ops, regs, array, conds, loc, steps, twin>>

ParserLoop ==
    \/ \E t \in Yields :
           \/ Keyword(t)
           \/ BracketOpen(t)
           \/ ElementIdentifierOrBracketClose(t)
           \/ ElementColon(t)
           \/ ElementType(t)
           \/ ElementSemicolon(t)
    \/ End

NextWitnesses ==
    \/ \E t \in Yields : Parse(t)
    \/ ParserLoop

SpecWitnesses == Init /\ [][NextWitnesses]_vars

\* The loop of the parser is not suspended for ever.
FairSpecWitnesses == SpecWitnesses /\ WF_vars(ParserLoop)

\* The tokens a sentence `witness { (identifier : type ;)* }` may have at a
\* place, and a sentence and its beginnings.
MayStandAt(t, i) ==
    IF i = 1 THEN t = "witness"
    ELSE IF i = 2 THEN t = "{"
    ELSE IF (i - 3) % 4 = 0 THEN t \in Identifiers \cup {"}"}
    ELSE IF (i - 3) % 4 = 1 THEN t = ":"
    ELSE IF (i - 3) % 4 = 2 THEN t \in TypeKeywords
    ELSE t = ";"

Begins(s) ==
    /\ \A i \in 1 .. Len(s) : MayStandAt(s[i], i)
    /\ \A i \in 1 .. (Len(s) - 1) : s[i] # "}"

Sentence(s) == Begins(s) /\ s # <<>> /\ s[Len(s)] = "}"

\* The groups `identifier : type ;` of the tokens, in their order.
Groups(s) == [g \in 1 .. ((Len(s) - 2) \div 4) |-> <<s[4 * g - 1], s[4 * g + 1]>>]

\* The moves of the state of the parser.
Moves ==
    {<<"idle", "Keyword">>, <<"Keyword", "BracketOpen">>,
     <<"BracketOpen", "ElementIdentifierOrBracketClose">>,
     <<"ElementIdentifierOrBracketClose", "ElementColon">>,
     <<"ElementIdentifierOrBracketClose", "End">>,
     <<"ElementColon", "ElementType">>, <<"ElementType", "ElementSemicolon">>,
     <<"ElementSemicolon", "ElementIdentifierOrBracketClose">>}

AlongTheStates ==
    /\ pc' # pc => (<<pc, pc'>> \in Moves \/ pc' = "returned")
    /\ loc' # loc =>
           /\ pc = "ElementSemicolon"
           /\ array' = Append(array, ";")
           /\ loc' = Append(loc, <<array[Len(array) - 2], array[Len(array)]>>)

\* What was returned, for the tokens taken.
Accepts ==
    pc = "returned" =>
        \E result \in {res.result} :
            /\ (result.ok /\ array = <<>>) =>
                   (result.value = <<>> /\ regs # <<>> /\ regs[1] # "witness")
            /\ (result.ok /\ array # <<>>) =>
                   (Sentence(array) /\ result.value = Groups(array) /\ regs = <<>>)
            /\ ~result.ok =>
                   /\ result.error[1] \in {"Expected", "UnexpectedEnd", "Lexical"}
                   /\ result.error[1] = "UnexpectedEnd" => (Begins(array) /\ ~Sentence(array))
                   /\ result.error[1] = "Lexical" =>
                          (array[Len(array)] = "?" /\ Begins(SubSeq(array, 1, Len(array) - 1)))
                   /\ result.error[1] = "Expected" =>
                          /\ ~Begins(array)
                          /\ Begins(SubSeq(array, 1, Len(array) - 1))
                          /\ result.error[3] = array[Len(array)]

\* While the parser runs, the tokens taken begin a sentence that is not
\* complete before the state End.
Running29 ==
    pc \notin {"idle", "returned"} =>
        /\ Begins(array)
        /\ loc = Groups(array)
        /\ Sentence(array) <=> pc = "End"

(***************************************************************************)
(* C29.  The witnesses parser accepts exactly the token sequences          *)
(* `witness { (identifier : type ;)* }`, moving only along Keyword ->      *)
(* BracketOpen -> ElementIdentifierOrBracketClose -> (ElementColon ->      *)
(* ElementType -> ElementSemicolon -> ElementIdentifierOrBracketClose)*    *)
(* -> End; it returns one Witness per group in source order, appended      *)
(* only when its `;` is consumed; it returns an empty list without         *)
(* consuming a token when the stream does not start with `witness`; on     *)
(* every finite stream it terminates with Ok or with an Expected,          *)
(* UnexpectedEnd or lexical error.                                         *)
(***************************************************************************)
C29_WitnessesParser ==
    /\ [](Accepts /\ Running29)
    /\ [][AlongTheStates]_vars
    /\ (pc \notin {"idle", "returned"}) ~> (pc = "returned")

\* Two witnesses were returned in the order of the source.
C29_Witness ==
    /\ pc = "returned"
    /\ res.result = Ok(<<<<"b", "u8">>, <<"a", "bool">>>>)
    /\ array = <<"witness", "{", "b", ":", "u8", ";", "a", ":", "bool", ";", "}">>

\* A stream that starts with another token: the empty list, nothing taken.
C29_NoKeywordReached ==
    /\ pc = "returned"
    /\ res.result = Ok(<<>>)
    /\ array = <<>>
    /\ regs = <<"a">>

(***************************************************************************)
(* The access operand parser under the parser of the `&` level.  pc is the *)
(* State of the parser at work, array the tokens read from the stream so   *)
(* far, regs the field next of the parser (a token read and not used),     *)
(* loc what the builder has eaten.  The stream ends in the token "end",    *)
(* which it repeats; "?" is a lexical error.                               *)
(***************************************************************************)

\* The most tokens read before the stream ends.
MaxRead == 7

Lexemes == {"a", "1", "!", "[", "]", "(", ")", ".", "&", "=", "?", "end"}

\* The stream yields these tokens next.
Streamed(ts) ==
    \A i \in 1 .. Len(ts) :
        LET before == array \o SubSeq(ts, 1, i - 1)
        IN  (Len(before) >= MaxRead \/ (before # <<>> /\ before[Len(before)] = "end"))
                => ts[i] = "end"

\* take_or_next(self.next.take(), stream): the token kept if there is one,
\* else the next token of the stream.
take_or_next(t) ==
    IF regs # <<>> THEN t = regs[1] /\ array' = array
    ELSE Streamed(<<t>>) /\ array' = Append(array, t)

\* What the builder eats, with the tokens it stands for.
Eaten(item, tokens) == [item |-> item, tokens |-> tokens]

Returns(result) ==
    /\ pc' = "returned"
    /\ res' = [op |-> "parse", result |-> result, log |-> res.log]

\* The result for a token no arm accepts.
Rejected(t, expected) ==
    Returns(IF t = "?" THEN Err(<<"Lexical">>) ELSE Err(<<"Expected", expected, t>>))

\* An access parser that keeps the exclamation mark as its next token.
after_exclamation_mark_kept(t) == <<t>>

\* The arm of the exclamation mark: nothing is done with the token.
after_exclamation_mark(t) == <<>>

\* The parser of the `&` level calls the parser of its operand, which is
\* the access parser at the end of the chain of the levels.
BitwiseAndOperand ==
    /\ \/ pc = "idle" /\ res.op = "none"
       \/ pc = "BitwiseAndOperand"
    /\ pc' = "PathOperand"
    /\ UNCHANGED <<ops, regs, res, array, conds, loc, steps, twin>>

\* PathOperandParser: an identifier, and the token after it.
PathOperand(t, next) ==
    /\ pc = "PathOperand"
    /\ regs = <<>>
    /\ IF t # "a"
       THEN Streamed(<<t>>) /\ array' = Append(array, t)
            /\ Rejected(t, <<"{identifier}">>) /\ UNCHANGED <<regs, loc>>
       ELSE /\ Streamed(<<t, next>>)
            /\ array' = array \o <<t, next>>
            /\ IF next = "?"
               THEN Rejected(next, <<>>) /\ UNCHANGED <<regs, loc>>
               ELSE /\ regs' = <<next>>
                    /\ loc' = Append(loc, Eaten("operand", <<t>>))
                    /\ pc' = "ExclamationMarkOrNext"
                    /\ res' = res
    /\ UNCHANGED <<ops, conds, steps, twin>>

ExclamationMarkOrNext(t) ==
    /\ pc = "ExclamationMarkOrNext"
    /\ take_or_next(t)
    /\ IF t = "?" THEN Rejected(t, <<>>) /\ regs' = <<>>
       ELSE /\ regs' = IF t = "!" THEN after_exclamation_mark(t) ELSE <<t>>
            /\ pc' = "AccessOrCallOrEnd"
            /\ res' = res
    /\ UNCHANGED <<ops, conds, loc, steps, twin>>

\* The last arm returns the tree and the token to the parser of the `&`
\* level, which keeps the token as its next one.
AccessOrCallOrEnd(t) ==
    /\ pc = "AccessOrCallOrEnd"
    /\ take_or_next(t)
    /\ IF t = "?" THEN Rejected(t, <<>>) /\ regs' = <<>> /\ loc' = loc
       ELSE IF t = "["
       THEN /\ loc' = Append(loc, Eaten("Index", <<t>>))
            /\ pc' = "IndexExpression" /\ regs' = <<>> /\ res' = res
       ELSE IF t = "("
       THEN /\ loc' = Append(loc, Eaten("Call", <<t>>))
            /\ pc' = "ArgumentList" /\ regs' = <<>> /\ res' = res
       ELSE IF t = "."
       THEN /\ loc' = Append(loc, Eaten("Field", <<t>>))
            /\ pc' = "FieldDescriptor" /\ regs' = <<>> /\ res' = res
       ELSE /\ loc' = loc
            /\ pc' = "BitwiseAndOperator" /\ regs' = <<t>> /\ res' = res
    /\ UNCHANGED <<ops, conds, steps, twin>>

\* ExpressionParser: an operand, and the token after it.
IndexExpression(t, next) ==
    /\ pc = "IndexExpression"
    /\ IF t \notin {"a", "1"}
       THEN Streamed(<<t>>) /\ array' = Append(array, t)
            /\ Rejected(t, <<"{expression}">>) /\ UNCHANGED <<regs, loc>>
       ELSE /\ Streamed(<<t, next>>)
            /\ array' = array \o <<t, next>>
            /\ IF next = "?"
               THEN Rejected(next, <<>>) /\ UNCHANGED <<regs, loc>>
               ELSE /\ regs' = <<next>>
                    /\ loc' = Append(loc, Eaten("operand", <<t>>))
                    /\ pc' = "BracketSquareRight"
                    /\ res' = res
    /\ UNCHANGED <<ops, conds, steps, twin>>

BracketSquareRight(t) ==
    /\ pc = "BracketSquareRight"
    /\ take_or_next(t)
    /\ regs' = <<>>
    /\ IF t = "]" THEN pc' = "AccessOrCallOrEnd" /\ res' = res
       ELSE Rejected(t, <<"]">>)
    /\ UNCHANGED <<ops, conds, loc, steps, twin>>

FieldDescriptor(t) ==
    /\ pc = "FieldDescriptor"
    /\ take_or_next(t)
    /\ regs' = <<>>
    /\ IF t \in {"1", "a"}
       THEN /\ loc' = Append(loc, Eaten(IF t = "1" THEN "MemberInteger" ELSE "MemberString",
                                        <<t>>))
            /\ pc' = "AccessOrCallOrEnd" /\ res' = res
       ELSE Rejected(t, <<"{field}">>) /\ loc' = loc
    /\ UNCHANGED <<ops, conds, steps, twin>>

\* ExpressionListParser: no expression or one, and the token after.
ArgumentList(t, next) ==
    /\ pc = "ArgumentList"
    /\ IF t \notin {"a", "1"}
       THEN /\ Streamed(<<t>>) /\ array' = Append(array, t)
            /\ next = t
            /\ IF t = "?" THEN Rejected(t, <<>>) /\ UNCHANGED <<regs, loc>>
               ELSE /\ regs' = <<t>>
                    /\ loc' = Append(loc, Eaten("List", <<>>))
                    /\ pc' = "ParenthesisRight" /\ res' = res
       ELSE /\ Streamed(<<t, next>>)
            /\ array' = array \o <<t, next>>
            /\ IF next = "?"
               THEN Rejected(next, <<>>) /\ UNCHANGED <<regs, loc>>
               ELSE /\ regs' = <<next>>
                    /\ loc' = Append(loc, Eaten("List", <<t>>))
                    /\ pc' = "ParenthesisRight" /\ res' = res
    /\ UNCHANGED <<ops, conds, steps, twin>>

ParenthesisRight(t) ==
    /\ pc = "ParenthesisRight"
    /\ take_or_next(t)
    /\ regs' = <<>>
    /\ IF t = ")" THEN pc' = "AccessOrCallOrEnd" /\ res' = res
       ELSE Rejected(t, <<")">>)
    /\ UNCHANGED <<ops, conds, loc, steps, twin>>

BitwiseAndOperator(t) ==
    /\ pc = "BitwiseAndOperator"
    /\ take_or_next(t)
    /\ regs' = <<>>
    /\ IF t = "?" THEN Rejected(t, <<>>) /\ loc' = loc
       ELSE IF t = "&"
       THEN /\ loc' = Append(loc, Eaten("BitwiseAnd", <<t>>))
            /\ pc' = "BitwiseAndOperand" /\ res' = res
       ELSE Returns(Ok([tree |-> loc, next |-> t])) /\ loc' = loc
    /\ UNCHANGED <<ops, conds, steps, twin>>

NextAccess ==
    \/ BitwiseAndOperand
    \/ \E t \in Lexemes : \E next \in Lexemes :
           \/ PathOperand(t, next)
           \/ IndexExpression(t, next)
           \/ ArgumentList(t, next)
    \/ \E t \in Lexemes :
           \/ ExclamationMarkOrNext(t)
           \/ AccessOrCallOrEnd(t)
           \/ BracketSquareRight(t)
           \/ FieldDescriptor(t)
           \/ ParenthesisRight(t)
           \/ BitwiseAndOperator(t)

SpecAccess == Init /\ [][NextAccess]_vars

\* The tokens of what the builder has eaten: an index is `[ expr ]`, a call
\* `( args )`, a field `.` and its name.
RECURSIVE Unparsed(_)
Unparsed(eaten) ==
    IF eaten = <<>> THEN <<>>
    ELSE IF eaten[1].item \in {"Index", "Call"} /\ Len(eaten) >= 2
    THEN eaten[1].tokens \o eaten[2].tokens
         \o <<IF eaten[1].item = "Index" THEN "]" ELSE ")">>
         \o Unparsed(SubSeq(eaten, 3, Len(eaten)))
    ELSE eaten[1].tokens \o Unparsed(Tail(eaten))

(***************************************************************************)
(* C30.  The expression sub-parsers never lose a token: every token the    *)
(* access parser reads is consumed as part of an accepted construct        *)
(* (`[ expr ]`, `( args )`, `.` and a tuple index or field identifier) or  *)
(* returned unchanged as the lookahead token, an exclamation mark after    *)
(* the path operand included; the parser of the `&` level returns the      *)
(* first token that is not `&` as its lookahead.                           *)
(***************************************************************************)
C30_NoTokenLost ==
    /\ pc = "BitwiseAndOperator" => Unparsed(loc) \o regs = array
    /\ (pc = "returned" /\ res.result.ok) =>
           /\ res.result.value.next # "&"
           /\ Unparsed(res.result.value.tree) \o <<res.result.value.next>> = array

\* The part that holds: the parser of the `&` level returns as lookahead
\* the last token read, which is not `&`, and every `&` read before it at
\* that level is in the tree.
C30_AmpersandLevel ==
    (pc = "returned" /\ res.result.ok) =>
        /\ res.result.value.next # "&"
        /\ res.result.value.next = array[Len(array)]
        /\ Cardinality({i \in 1 .. Len(array) : array[i] = "&"})
               = Cardinality({i \in 1 .. Len(res.result.value.tree) :
                                 res.result.value.tree[i].item = "BitwiseAnd"})

C30_AmpersandReached ==
    /\ pc = "returned"
    /\ res.result.ok
    /\ array = <<"a", "[", "1", "]", "&", "a", "=">>
    /\ res.result.value.next = "="

====
